---- MODULE Spec2Model ----
(***************************************************************************)
(* Model of the shade commander's retry scheduler                          *)
(* (commander/services/async_retry_service.py, class AsyncRetryService).   *)
(*                                                                         *)
(* The service runs on one asyncio event loop.  Every public method of the *)
(* service is synchronous, so a call is one atomic action.  A background   *)
(* task advances from one suspension point to the next in one action; the  *)
(* only suspension points of the task bodies are the asyncio.sleep calls   *)
(* (send_shade_command_fast / send_shade_command_single_shot are declared  *)
(* async but never await anything that suspends).                          *)
(*                                                                         *)
(* asyncio.Task semantics that the model keeps:                            *)
(*   - create_task only schedules the coroutine; its body first runs in a  *)
(*     later loop iteration (pc = "unstarted" until then);                 *)
(*   - Task.cancel() only requests cancellation (cancelReq); the           *)
(*     CancelledError is thrown into the coroutine at its next step;       *)
(*   - a task cancelled before its first step never executes its body,     *)
(*     hence none of its try/finally blocks;                               *)
(*   - Task.cancel() on a finished task does nothing;                      *)
(*   - asyncio.wait_for runs the wrapped coroutine to its first sleep      *)
(*     either in the waiting task or in a child task it cancels and awaits *)
(*     (depending on the Python version); both unwind the same finally     *)
(*     blocks, and both skip them when cancelled before the body starts.   *)
(* Wall-clock time is abstracted: a sleeping task may resume at any later  *)
(* step, a wait_for timeout may fire at any sleep, and a sweep may find any  *)
(* number of the oldest tasks past its age threshold.                      *)
(* A task id "retry_<counter>_<ms>" is modelled by its counter.            *)
(*                                                                         *)
(* The module also models the serial link owner                            *)
(* (commander/interface/arduino_whisperer.py, SmartArduinoConnection) and  *)
(* the command encoding of send_shade_command_fast.  A call into the link  *)
(* owner is cut at its lock operations and at the start and the end of     *)
(* each serial write, and runs against the hourly health-check thread, the *)
(* other user of connection_lock.  Specifications:                         *)
(*   Spec        the scheduler alone (the link is not used);               *)
(*   SpecLink    the link owner's operations, step by step;                *)
(*   SpecShade   the shade route and its bursts on top of the link owner;  *)
(*   SpecEncode  the command encoding over a set of shade records;         *)
(*   SpecScene   the scene route (commander/routers/scenes.py,             *)
(*               execute_scene): the handler's own first pass over the     *)
(*               scene, cut at its post-step sleeps, and the retry task it *)
(*               queues, with time counted as the sum of the delays slept; *)
(*   SpecLog     repeated executions of a one-step scene, for the          *)
(*               execution log;                                            *)
(*   SpecClock   the scheduler on a clock of whole seconds: the 10 s       *)
(*               wait_for of a burst, the timeout of a queued scene and    *)
(*               the sweep of _cleanup_old_tasks every 60 s;               *)
(*   SpecWait    bursts on the same clock with a caller of wait_for_task.  *)
(***************************************************************************)
EXTENDS Integers, Sequences, FiniteSets, TLC

(* ----------------------------- bounds --------------------------------- *)
NumShades == 2
MaxTasks == 2
MaxRetryCount == 2
MaxLinkTasks == 1
NumPorts == 2

(* ------------------------- program constants -------------------------- *)
Shades == 1..NumShades
Actions == {"u", "d", "s"}
\* The four-pulse schedule of the docstrings.
retry_delays_ms_four_pulses == <<650, 1500, 2500>>
retry_delays_ms == <<650, 1500>>
delay_between_commands_ms == 750
cycle_delay_ms == 2000
retry_cycle_delay_ms == 1000

\* The scene definitions queued in the model: ordered steps
\* {shade_id, action, delay_ms}.
SceneDefs ==
    { << [shade_id |-> 1, action |-> "u", delay_ms |-> 750],
         [shade_id |-> 2, action |-> "d", delay_ms |-> 750] >>,
      << [shade_id |-> 1, action |-> "d", delay_ms |-> 0],
         [shade_id |-> 1, action |-> "u", delay_ms |-> 750] >> }

VARIABLES
    tasks,               \* task id -> the asyncio task and its coroutine state
    task_counter,        \* AsyncRetryService.task_counter
    active_tasks,        \* keys of AsyncRetryService.active_tasks
    active_shade_tasks,  \* AsyncRetryService.active_shade_tasks (shade -> task id)
    cancelled_tasks,     \* keys of AsyncRetryService.cancelled_tasks
    serial_connection,   \* SmartArduinoConnection.serial_connection: 0 (None) or the open port
    current_port,        \* SmartArduinoConnection.current_port: 0 (None) or a port
    connection_lock,     \* holder of SmartArduinoConnection.connection_lock, or "free"
    call,                \* the link call the event-loop thread is executing
    health,              \* position of the background health-check thread
    devices,             \* ports on which the shade controller answers
    in_flight,           \* serial writes that have begun and not yet returned
    attempt_results,     \* task id -> what each transmission attempt of the burst returned
    response,            \* the last answer given to a caller of the HTTP / service layer
    shade_data,          \* the shade record handed to the frame encoder
    command,             \* the action handed to the frame encoder
    arduino_command,     \* what the frame encoder produced for them
    scene_request,       \* the execute_scene request being handled, or the last one answered
    scene_execution_logs, \* routers/scenes.py scene_execution_logs
    now,                 \* time.time(), in seconds since the service was created
    next_sweep,          \* when the asyncio.sleep(60) of _cleanup_old_tasks ends
    task_times,          \* task id -> timestamp in the id, wait_for timeout and start
    zombie_metrics,      \* AsyncRetryService.zombie_metrics (the two kill counters)
    waiter               \* the coroutine inside wait_for_task, if any

schedVars == <<tasks, task_counter, active_tasks, active_shade_tasks, cancelled_tasks>>
linkVars == <<serial_connection, current_port, connection_lock, call, health,
              devices, in_flight, attempt_results, response>>
encVars == <<shade_data, command, arduino_command>>
sceneVars == <<scene_request, scene_execution_logs>>
clockVars == <<now, next_sweep, task_times, zombie_metrics, waiter>>
vars == <<tasks, task_counter, active_tasks, active_shade_tasks, cancelled_tasks,
          serial_connection, current_port, connection_lock, call, health,
          devices, in_flight, attempt_results, response,
          shade_data, command, arduino_command,
          scene_request, scene_execution_logs,
          now, next_sweep, task_times, zombie_metrics, waiter>>

(* --------------------------- small helpers ---------------------------- *)
Del(f, k) == [x \in (DOMAIN f) \ {k} |-> f[x]]
Put(f, k, v) == [x \in (DOMAIN f) \cup {k} |-> IF x = k THEN v ELSE f[x]]
Values(f) == {f[x] : x \in DOMAIN f}

\* The part of the state the service methods read and write, as one record.
State == [tasks |-> tasks, active_tasks |-> active_tasks,
          active_shade_tasks |-> active_shade_tasks,
          cancelled_tasks |-> cancelled_tasks, ret |-> FALSE]

Commit(st) ==
    /\ tasks' = st.tasks
    /\ active_tasks' = st.active_tasks
    /\ active_shade_tasks' = st.active_shade_tasks
    /\ cancelled_tasks' = st.cancelled_tasks

(* ---------------------------- asyncio.Task ---------------------------- *)
\* Task.cancel(): request cancellation of a task that is not done.
TaskCancel(tk, t) ==
    IF tk[t].pc = "done" THEN tk ELSE [tk EXCEPT ![t].cancelReq = TRUE]

\* A task that reached the end of its coroutine (or was unwound).
Finish(tk, t, how) == [tk EXCEPT ![t].pc = "done", ![t].exit = how]

\* One transmission attempt: a call of send_shade_command_fast /
\* send_shade_command_single_shot with the task's shade and action.
Transmit(tk, t, shade_id, action, after) ==
    [tk EXCEPT ![t].sent = Append(@, [shade_id |-> shade_id, action |-> action, after |-> after])]

NewBurst(shade_id, action) ==
    [kind |-> "burst", shade_id |-> shade_id, action |-> action,
     cmds |-> <<>>, retry_count |-> 0,
     pc |-> "unstarted", i |-> 0, cycle |-> 0, phase |-> "none",
     cancelReq |-> FALSE, exit |-> "none", sent |-> <<>>]

NewScene(kind, cmds, retry_count, delay_ms) ==
    [kind |-> kind, shade_id |-> 0, action |-> "",
     cmds |-> cmds, retry_count |-> retry_count,
     delay_between_commands_ms |-> delay_ms,
     pc |-> "unstarted", i |-> 0, cycle |-> 0, phase |-> "none",
     cancelReq |-> FALSE, exit |-> "none", sent |-> <<>>]

AddTask(tk, task_id, task) ==
    [x \in (DOMAIN tk) \cup {task_id} |-> IF x = task_id THEN task ELSE tk[x]]

RECURSIVE CancelEach(_, _)
CancelEach(tk, ids) ==
    IF ids = {} THEN tk
    ELSE LET t == CHOOSE x \in ids : TRUE IN CancelEach(TaskCancel(tk, t), ids \ {t})

(* ------------------------ AsyncRetryService --------------------------- *)
\* cancel_shade_retries without the Task.cancel() call.
cancel_shade_retries_no_cancel(st, shade_id) ==
    IF shade_id \notin DOMAIN st.active_shade_tasks
    THEN [st EXCEPT !.ret = FALSE]
    ELSE LET task_id == st.active_shade_tasks[shade_id] IN
         IF task_id \in st.active_tasks
         THEN [st EXCEPT !.cancelled_tasks = @ \cup {task_id},
                         !.active_shade_tasks = Del(@, shade_id),
                         !.ret = TRUE]
         ELSE [st EXCEPT !.active_shade_tasks = Del(@, shade_id),
                         !.ret = FALSE]

\* cancel_shade_retries that ignores which shade it was asked about.
cancel_shade_retries_any_shade(st, shade_id) ==
    IF DOMAIN st.active_shade_tasks = {}
    THEN [st EXCEPT !.ret = FALSE]
    ELSE [st EXCEPT !.tasks = CancelEach(@, Values(st.active_shade_tasks) \cap st.active_tasks),
                    !.cancelled_tasks = @ \cup (Values(st.active_shade_tasks) \cap st.active_tasks),
                    !.active_shade_tasks = <<>>,
                    !.ret = TRUE]

\* cancel_shade_retries that leaves a stale entry (task no longer active)
\* in the shade-to-task map.
cancel_shade_retries_keeps_stale_entry(st, shade_id) ==
    IF shade_id \notin DOMAIN st.active_shade_tasks
    THEN [st EXCEPT !.ret = FALSE]
    ELSE LET task_id == st.active_shade_tasks[shade_id] IN
         IF task_id \in st.active_tasks
         THEN [st EXCEPT !.tasks = TaskCancel(@, task_id),
                         !.cancelled_tasks = @ \cup {task_id},
                         !.active_shade_tasks = Del(@, shade_id),
                         !.ret = TRUE]
         ELSE [st EXCEPT !.ret = FALSE]

\* cancel_shade_retries(shade_id); the return value is st.ret.
cancel_shade_retries(st, shade_id) ==
    IF shade_id \notin DOMAIN st.active_shade_tasks
    THEN [st EXCEPT !.ret = FALSE]
    ELSE LET task_id == st.active_shade_tasks[shade_id] IN
         IF task_id \in st.active_tasks
         THEN [st EXCEPT !.tasks = TaskCancel(@, task_id),
                         !.cancelled_tasks = @ \cup {task_id},
                         !.active_shade_tasks = Del(@, shade_id),
                         !.ret = TRUE]
         ELSE [st EXCEPT !.active_shade_tasks = Del(@, shade_id),
                         !.ret = FALSE]

\* The finally block of _execute_fire_and_forget_sequence.
burst_finally(st, t) ==
    LET shade_id == st.tasks[t].shade_id IN
    [st EXCEPT !.active_tasks = @ \ {t},
               !.active_shade_tasks =
                   IF shade_id \in DOMAIN @ /\ @[shade_id] = t
                   THEN Del(@, shade_id) ELSE @]

\* queue_fire_and_forget_sequence that forgets to cancel the previous task.
queue_fire_and_forget_sequence_no_cancel(shade_id, action) ==
    /\ task_counter < MaxTasks
    /\ LET task_id == task_counter + 1
       IN /\ task_counter' = task_id
          /\ Commit([State EXCEPT
                 !.tasks = AddTask(@, task_id, NewBurst(shade_id, action)),
                 !.active_tasks = @ \cup {task_id},
                 !.active_shade_tasks = Put(@, shade_id, task_id)])

\* queue_fire_and_forget_sequence(shade_id, action): returns task_counter'.
queue_fire_and_forget_sequence(shade_id, action) ==
    /\ task_counter < MaxTasks
    /\ LET st == cancel_shade_retries(State, shade_id)
           task_id == task_counter + 1
       IN /\ task_counter' = task_id
          /\ Commit([st EXCEPT
                 !.tasks = AddTask(@, task_id, NewBurst(shade_id, action)),
                 !.active_tasks = @ \cup {task_id},
                 !.active_shade_tasks = Put(@, shade_id, task_id)])

\* cancel_shade_retries called as a public operation.
CancelShade(shade_id) ==
    /\ Commit(cancel_shade_retries(State, shade_id))
    /\ UNCHANGED task_counter

\* cancel_task(task_id)
cancel_task(task_id) ==
    /\ task_id \in active_tasks
    /\ tasks' = TaskCancel(tasks, task_id)
    /\ UNCHANGED <<task_counter, active_tasks, active_shade_tasks, cancelled_tasks>>

\* cancel_all_tasks()
cancel_all_tasks ==
    /\ tasks' = CancelEach(tasks, active_tasks)
    /\ active_tasks' = {}
    /\ UNCHANGED <<task_counter, active_shade_tasks, cancelled_tasks>>

(* ------------------- the burst coroutine, step by step ---------------- *)
\* First step of timeout_protected_sequence: command 1, then sleep.
BurstStart(t) ==
    /\ tasks[t].kind = "burst" /\ tasks[t].pc = "unstarted" /\ ~tasks[t].cancelReq
    /\ tasks' = [Transmit(tasks, t, tasks[t].shade_id, tasks[t].action, 0)
                    EXCEPT ![t].pc = "sleep", ![t].i = 1]
    /\ UNCHANGED <<task_counter, active_tasks, active_shade_tasks, cancelled_tasks>>

\* A burst that swallows the cancellation and keeps transmitting.
BurstResume_swallow_cancel(t) ==
    /\ tasks[t].kind = "burst" /\ tasks[t].pc = "sleep"
    /\ LET i == tasks[t].i
           tk == Transmit(tasks, t, tasks[t].shade_id, tasks[t].action, retry_delays_ms[i])
       IN IF i < Len(retry_delays_ms)
          THEN /\ tasks' = [tk EXCEPT ![t].i = i + 1]
               /\ UNCHANGED <<active_tasks, active_shade_tasks, cancelled_tasks>>
          ELSE Commit(burst_finally([State EXCEPT !.tasks = Finish(tk, t, "completed")], t))
    /\ UNCHANGED task_counter

\* A sleep of the burst ends: next command; after the last one the
\* coroutine returns through its finally block.
BurstResume(t) ==
    /\ tasks[t].kind = "burst" /\ tasks[t].pc = "sleep" /\ ~tasks[t].cancelReq
    /\ LET i == tasks[t].i
           tk == Transmit(tasks, t, tasks[t].shade_id, tasks[t].action, retry_delays_ms[i])
       IN IF i < Len(retry_delays_ms)
          THEN /\ tasks' = [tk EXCEPT ![t].i = i + 1]
               /\ UNCHANGED <<active_tasks, active_shade_tasks, cancelled_tasks>>
          ELSE Commit(burst_finally([State EXCEPT !.tasks = Finish(tk, t, "completed")], t))
    /\ UNCHANGED task_counter

\* The CancelledError reaches the burst.  Thrown into a coroutine that has
\* not started, it ends the task without running any of its code.
BurstCancelled(t) ==
    /\ tasks[t].kind = "burst" /\ tasks[t].pc # "done" /\ tasks[t].cancelReq
    /\ IF tasks[t].pc = "unstarted"
       THEN /\ tasks' = Finish(tasks, t, "cancelled")
            /\ UNCHANGED <<active_tasks, active_shade_tasks, cancelled_tasks>>
       ELSE Commit(burst_finally([State EXCEPT !.tasks = Finish(tasks, t, "cancelled")], t))
    /\ UNCHANGED task_counter

\* asyncio.wait_for(..., timeout=10.0) expires while the burst sleeps.
BurstTimeout(t) ==
    /\ tasks[t].kind = "burst" /\ tasks[t].pc = "sleep" /\ ~tasks[t].cancelReq
    /\ Commit(burst_finally([State EXCEPT !.tasks = Finish(tasks, t, "timeout")], t))
    /\ UNCHANGED task_counter

(* --------------------------- scene tasks ------------------------------ *)
\* cancel_all_scene_tasks that cancels every active task.
cancel_all_scene_tasks_every_task(st) ==
    [st EXCEPT !.tasks = CancelEach(@, st.active_tasks)]

\* cancel_all_scene_tasks(): a task counts as a scene task when no shade
\* maps to it; the return value (st.ret) is not used by the model.
cancel_all_scene_tasks(st) ==
    LET shade_task_ids == Values(st.active_shade_tasks)
        tasks_to_cancel == {t \in st.active_tasks : t \notin shade_task_ids}
    IN [st EXCEPT !.tasks = CancelEach(@, tasks_to_cancel)]

\* queue_scene_execution(scene_name, scene_commands, retry_count)
queue_scene_execution(cmds, retry_count) ==
    /\ task_counter < MaxTasks
    /\ LET st == cancel_all_scene_tasks(State)
           task_id == task_counter + 1
       IN /\ task_counter' = task_id
          /\ Commit([st EXCEPT
                 !.tasks = AddTask(@, task_id, NewScene("scene", cmds, retry_count,
                                                       delay_between_commands_ms)),
                 !.active_tasks = @ \cup {task_id}])

\* queue_scene_retries(scene_name, scene_commands, retry_count,
\*                     delay_between_commands_ms)
queue_scene_retries(cmds, retry_count, delay_ms) ==
    /\ task_counter < MaxTasks
    /\ IF retry_count <= 0
       THEN UNCHANGED schedVars
       ELSE LET task_id == task_counter + 1
            IN /\ task_counter' = task_id
               /\ tasks' = AddTask(tasks, task_id,
                                   NewScene("retries", cmds, retry_count, delay_ms))
               /\ active_tasks' = active_tasks \cup {task_id}
               /\ UNCHANGED <<active_shade_tasks, cancelled_tasks>>

\* The finally block of one scene step: unregister the shade if still owned.
step_finally(st, t, shade_id) ==
    [st EXCEPT !.active_shade_tasks =
                   IF shade_id \in DOMAIN @ /\ @[shade_id] = t
                   THEN Del(@, shade_id) ELSE @]

\* The finally block of execute_scene_with_retries.
scene_finally(st, t) == [st EXCEPT !.active_tasks = @ \ {t}]

Suspend(st, t, phase, cycle, i) ==
    [st EXCEPT !.tasks[t].pc = "sleep", !.tasks[t].phase = phase,
               !.tasks[t].cycle = cycle, !.tasks[t].i = i]

\* execute_scene_with_retries from the top of step i (1-based) of cycle
\* `cycle` (0-based) up to its next asyncio.sleep or its end; `slept` is
\* the delay the task slept just before.
RECURSIVE scene_run(_, _, _, _, _)
scene_run(st, t, cycle, i, slept) ==
    LET cmds == st.tasks[t].cmds
        retry_count == st.tasks[t].retry_count
    IN IF cycle >= retry_count
       THEN scene_finally([st EXCEPT !.tasks = Finish(@, t, "completed")], t)
       ELSE IF i > Len(cmds)
       THEN IF cycle < retry_count - 1
            THEN Suspend(st, t, "cycle_delay", cycle, i)
            ELSE scene_run(st, t, cycle + 1, 1, 0)
       ELSE LET cmd == cmds[i]
                s1 == cancel_shade_retries(st, cmd.shade_id)
                s2 == [s1 EXCEPT !.active_shade_tasks = Put(@, cmd.shade_id, t)]
                s3 == [s2 EXCEPT !.tasks = Transmit(@, t, cmd.shade_id, cmd.action, slept)]
            IN IF i < Len(cmds) /\ cmd.delay_ms > 0
               THEN Suspend(s3, t, "step_delay", cycle, i)
               ELSE scene_run(step_finally(s3, t, cmd.shade_id), t, cycle, i + 1, 0)

\* The scene task's sleep ends (or the task takes its first step).
scene_resume(st, t) ==
    LET task == st.tasks[t] IN
    IF task.pc = "unstarted" THEN scene_run(st, t, 0, 1, 0)
    ELSE IF task.phase = "step_delay"
    THEN scene_run(step_finally(st, t, task.cmds[task.i].shade_id), t,
                   task.cycle, task.i + 1, task.cmds[task.i].delay_ms)
    ELSE scene_run(st, t, task.cycle + 1, 1, cycle_delay_ms)

\* The scene task is unwound from its current sleep (CancelledError from
\* Task.cancel(), or the cancellation raised by the wait_for timeout).
scene_unwind(st, t, how) ==
    LET task == st.tasks[t]
        s1 == IF task.phase = "step_delay"
              THEN step_finally(st, t, task.cmds[task.i].shade_id) ELSE st
    IN scene_finally([s1 EXCEPT !.tasks = Finish(@, t, how)], t)

SceneStep(t) ==
    /\ tasks[t].kind = "scene" /\ tasks[t].pc # "done" /\ ~tasks[t].cancelReq
    /\ Commit(scene_resume(State, t))
    /\ UNCHANGED task_counter

\* A scene whose step handler (`except Exception`) catches the
\* CancelledError raised in the post-step sleep and goes on.
SceneCancelled_caught_by_step_handler(t) ==
    /\ tasks[t].kind = "scene" /\ tasks[t].pc # "done" /\ tasks[t].cancelReq
    /\ IF tasks[t].pc = "unstarted"
       THEN /\ tasks' = Finish(tasks, t, "cancelled")
            /\ UNCHANGED <<active_tasks, active_shade_tasks, cancelled_tasks>>
       ELSE IF tasks[t].phase = "step_delay"
       THEN Commit(scene_resume([State EXCEPT !.tasks[t].cancelReq = FALSE], t))
       ELSE Commit(scene_unwind(State, t, "cancelled"))
    /\ UNCHANGED task_counter

SceneCancelled(t) ==
    /\ tasks[t].kind = "scene" /\ tasks[t].pc # "done" /\ tasks[t].cancelReq
    /\ IF tasks[t].pc = "unstarted"
       THEN /\ tasks' = Finish(tasks, t, "cancelled")
            /\ UNCHANGED <<active_tasks, active_shade_tasks, cancelled_tasks>>
       ELSE Commit(scene_unwind(State, t, "cancelled"))
    /\ UNCHANGED task_counter

\* asyncio.wait_for(..., timeout=timeout_seconds) expires while the scene sleeps.
SceneTimeout(t) ==
    /\ tasks[t].kind = "scene" /\ tasks[t].pc = "sleep" /\ ~tasks[t].cancelReq
    /\ Commit(scene_unwind(State, t, "timeout"))
    /\ UNCHANGED task_counter

\* _execute_scene_retry_cycles from the top of step i of cycle `cycle`.
RECURSIVE retries_run(_, _, _, _, _)
retries_run(tk, t, cycle, i, slept) ==
    LET cmds == tk[t].cmds
        retry_count == tk[t].retry_count
    IN IF cycle >= retry_count
       THEN Finish(tk, t, "completed")
       ELSE IF i > Len(cmds)
       THEN IF cycle < retry_count - 1
            THEN [tk EXCEPT ![t].pc = "sleep", ![t].phase = "cycle_delay",
                            ![t].cycle = cycle, ![t].i = i]
            ELSE retries_run(tk, t, cycle + 1, 1, 0)
       ELSE LET tk1 == Transmit(tk, t, cmds[i].shade_id, cmds[i].action, slept)
            IN IF i < Len(cmds)
               THEN [tk1 EXCEPT ![t].pc = "sleep", ![t].phase = "step_delay",
                                ![t].cycle = cycle, ![t].i = i]
               ELSE retries_run(tk1, t, cycle, i + 1, 0)

RetriesStep(t) ==
    /\ tasks[t].kind = "retries" /\ tasks[t].pc # "done" /\ ~tasks[t].cancelReq
    /\ tasks' = IF tasks[t].pc = "unstarted" THEN retries_run(tasks, t, 0, 1, 0)
                ELSE IF tasks[t].phase = "step_delay"
                THEN retries_run(tasks, t, tasks[t].cycle, tasks[t].i + 1,
                                 tasks[t].delay_between_commands_ms)
                ELSE retries_run(tasks, t, tasks[t].cycle + 1, 1, retry_cycle_delay_ms)
    /\ UNCHANGED <<task_counter, active_tasks, active_shade_tasks, cancelled_tasks>>

\* _execute_scene_retry_cycles re-raises the CancelledError; it has no
\* finally block.
RetriesCancelled(t) ==
    /\ tasks[t].kind = "retries" /\ tasks[t].pc # "done" /\ tasks[t].cancelReq
    /\ tasks' = Finish(tasks, t, "cancelled")
    /\ UNCHANGED <<task_counter, active_tasks, active_shade_tasks, cancelled_tasks>>

(* ------------------------- periodic sweep ----------------------------- *)
\* One pass of _cleanup_old_tasks at a moment when exactly the tasks with
\* id <= oldest are more than 12 s old (ages follow creation order).  An
\* entry can only enter active_tasks when its task is created, so what a
\* pass removes does not depend on what earlier passes saw.
cleanup_old_tasks(oldest) ==
    LET tasks_to_remove == {t \in active_tasks : t <= oldest} IN
    /\ tasks' = CancelEach(tasks, tasks_to_remove)
    /\ active_tasks' = active_tasks \ tasks_to_remove
    /\ active_shade_tasks' =
           [s \in {x \in DOMAIN active_shade_tasks : active_shade_tasks[x] \notin tasks_to_remove}
               |-> active_shade_tasks[s]]
    /\ UNCHANGED <<task_counter, cancelled_tasks>>

(* --------------------------- frame encoder ---------------------------- *)
\* Text is a sequence of one-character strings, so that formatting and
\* str.replace are computed character by character.
HexDigits == <<"0", "1", "2", "3", "4", "5", "6", "7",
               "8", "9", "A", "B", "C", "D", "E", "F">>
HexDigitsLower == <<"0", "1", "2", "3", "4", "5", "6", "7",
                    "8", "9", "a", "b", "c", "d", "e", "f">>

\* format(n, 'X') for n >= 0
RECURSIVE Hex(_)
Hex(n) == IF n < 16 THEN <<HexDigits[n + 1]>>
          ELSE Hex(n \div 16) \o <<HexDigits[(n % 16) + 1]>>

\* format(n, 'x'): lower-case digits.
RECURSIVE HexLower(_)
HexLower(n) == IF n < 16 THEN <<HexDigitsLower[n + 1]>>
               ELSE HexLower(n \div 16) \o <<HexDigitsLower[(n % 16) + 1]>>

\* format(n, '02x')
Hex02_lowercase(n) == IF n < 16 THEN <<"0">> \o HexLower(n) ELSE HexLower(n)

\* format(n, '02X'): zero-padded to a width of at least two.
Hex02(n) == IF Len(Hex(n)) < 2 THEN <<"0">> \o Hex(n) ELSE Hex(n)

\* str(n) for n >= 0
RECURSIVE Dec(_)
Dec(n) == IF n < 10 THEN <<HexDigits[n + 1]>>
          ELSE Dec(n \div 10) \o <<HexDigits[(n % 10) + 1]>>

\* s.replace(' ', '')
RemoveSpaces(s) == SelectSeq(s, LAMBDA c : c # " ")

\* The values int(time.time() * 1000) takes in the model.
Epochs == {1, 2, 12}

\* A task id rendered without the separator between counter and epoch.
generate_task_id_no_separator(counter, ms) ==
    <<"r", "e", "t", "r", "y", "_">> \o Dec(counter) \o Dec(ms)

\* _generate_task_id(): f"retry_{task_counter}_{ms}" for the counter value
\* the call has just produced.
generate_task_id(counter, ms) ==
    <<"r", "e", "t", "r", "y", "_">> \o Dec(counter) \o <<"_">> \o Dec(ms)

Comma == <<",">>
FF_FF == <<"F", "F", " ", "F", "F">>
INFO == <<"I", "N", "F", "O">>

\* The payload column selected by the command.
SelectCommand(rec, cmd_type) ==
    IF cmd_type = "u" THEN rec.up_command
    ELSE IF cmd_type = "d" THEN rec.down_command
    ELSE rec.stop_command

\* An encoder that maps every command other than 'u' to "down".
cmd_type_val_up_or_down(cmd_type) == IF cmd_type = "u" THEN 0 ELSE 1

cmd_type_val(cmd_type) == IF cmd_type = "u" THEN 0 ELSE IF cmd_type = "d" THEN 1 ELSE 2

\* The f-string of send_shade_command_fast / send_shade_command_single_shot.
BuildFrame(rec, cmd_type) ==
    LET cmd == SelectCommand(rec, cmd_type)
        remote_type_val == IF rec.remote_type = "AC123-06D" THEN 0 ELSE 1
        is_cc == IF rec.channel = "CC" THEN 1 ELSE 0
    IN <<"T", "X", ":">> \o Hex02(rec.remote_id) \o Comma
         \o RemoveSpaces(rec.header_bytes) \o Comma
         \o RemoveSpaces(rec.identifier_bytes) \o Comma
         \o RemoveSpaces(cmd) \o Comma
         \o Dec(remote_type_val) \o Comma
         \o Dec(rec.common_byte) \o Comma
         \o Dec(is_cc) \o Comma
         \o Dec(cmd_type_val(cmd_type))

\* What the try block makes of a shade record: the line to send, or the
\* "not configured" answer (a payload that is None, empty or 'FF FF').
Rejected(why) == [ok |-> FALSE, why |-> why, line |-> <<>>]

\* An encoder without the 'FF FF' test.
EncodeRecord_no_sentinel(rec, cmd_type) ==
    [ok |-> TRUE, why |-> "", line |-> BuildFrame(rec, cmd_type)]

EncodeRecord(rec, cmd_type) ==
    LET cmd == SelectCommand(rec, cmd_type) IN
    IF cmd = <<>> \/ cmd = FF_FF
    THEN Rejected("not_configured")
    ELSE [ok |-> TRUE, why |-> "", line |-> BuildFrame(rec, cmd_type)]

\* The shade directory: the rows _get_shade_data finds.  Odd shades carry the
\* 6-channel record of the test data; even shades a 16-channel record with
\* the channel tag CC and no stop payload.  Ids above NumShades are absent.
ShadeDb ==
    [s \in Shades |->
        IF s % 2 = 1
        THEN [remote_id |-> 1, remote_type |-> "AC123-06D", channel |-> "A1",
              header_bytes |-> <<"A", "A", " ", "B", "B">>,
              identifier_bytes |-> <<"C", "C", " ", "D", "D">>,
              up_command |-> <<"1", "1", " ", "2", "2">>,
              down_command |-> <<"3", "3", " ", "4", "4">>,
              stop_command |-> <<"5", "5", " ", "6", "6">>,
              common_byte |-> 77]
        ELSE [remote_id |-> 254, remote_type |-> "AC123-16D", channel |-> "CC",
              header_bytes |-> <<"E", "E", " ", "F", "F">>,
              identifier_bytes |-> <<"1", "1", " ", "2", "2">>,
              up_command |-> <<"3", "3", " ", "4", "4">>,
              down_command |-> <<"5", "5", " ", "6", "6">>,
              stop_command |-> FF_FF,
              common_byte |-> 99]]

\* Shade ids a request may carry: the directory's and one that is absent.
RequestShades == 1..(NumShades + 1)
\* Actions a caller of the unvalidated batch route may pass.
RequestActions == Actions \cup {"x"}

\* send_shade_command_fast / send_shade_command_single_shot up to the call
\* of send_command_fast: validation, directory lookup, encoding.
PrepareCommand(shade_id, cmd_type) ==
    IF cmd_type \notin {"u", "d", "s"} THEN Rejected("invalid_command")
    ELSE IF shade_id \notin DOMAIN ShadeDb THEN Rejected("not_found")
    ELSE EncodeRecord(ShadeDb[shade_id], cmd_type)

(* ----------------------------- link owner ----------------------------- *)
Ports == 1..NumPorts
Threads == {"loop", "health"}

\* The event-loop thread is not inside any link call.
NoCall == [op |-> "idle", pc |-> "idle", kind |-> "", task |-> 0,
           shade_id |-> 0, action |-> "", line |-> <<>>, port |-> 0,
           result |-> "", pre |-> <<0, 0>>]

NoResponse == [success |-> FALSE, task_id |-> 0]
NoRecord == [remote_id |-> 0, remote_type |-> "", channel |-> "",
             header_bytes |-> <<>>, identifier_bytes |-> <<>>,
             up_command |-> <<>>, down_command |-> <<>>, stop_command |-> <<>>,
             common_byte |-> 0]

\* SmartArduinoConnection.__init__ and nothing plugged in.
LinkIdle ==
    /\ serial_connection = 0
    /\ current_port = 0
    /\ connection_lock = "free"
    /\ call = NoCall
    /\ health = "sleep"
    /\ devices = {}
    /\ in_flight = {}
    /\ attempt_results = <<>>
    /\ response = NoResponse

EncIdle ==
    /\ shade_data = NoRecord
    /\ command = ""
    /\ arduino_command = Rejected("")

(* --------------------------- scene router ----------------------------- *)
\* Keep only the last 100 executions.
MaxLogEntries == 100

\* The scene files of SCENES_DIR as parsed JSON; a name with no file is
\* not in the domain.
SceneFiles ==
    [good_morning |->
        [commands |-> << [shade_id |-> 1, action |-> "u", delay_ms |-> 750],
                         [shade_id |-> 2, action |-> "d", delay_ms |-> 750] >>,
         retry_count |-> 1, timeout_seconds |-> 30],
     good_night |->
        [commands |-> << [shade_id |-> 1, action |-> "d", delay_ms |-> 750],
                         [shade_id |-> 2, action |-> "d", delay_ms |-> 750],
                         [shade_id |-> 1, action |-> "s", delay_ms |-> 0] >>,
         retry_count |-> 0, timeout_seconds |-> 1],
     all_up |->
        [commands |-> << [shade_id |-> 1, action |-> "u", delay_ms |-> 1000] >>,
         retry_count |-> 0, timeout_seconds |-> 30],
     too_many_retries |->
        [commands |-> << [shade_id |-> 1, action |-> "u", delay_ms |-> 750] >>,
         retry_count |-> 6, timeout_seconds |-> 30]]

\* The scene names requests ask for.
SceneNames == {"good_morning", "good_night", "too_many_retries", "no_such_scene"}

\* SceneCommand / SceneDefinition: the field constraints and validators.
SceneDefinition(scene_data) ==
    /\ scene_data.commands # <<>>
    /\ \A k \in 1..Len(scene_data.commands) :
          /\ scene_data.commands[k].shade_id > 0
          /\ scene_data.commands[k].action \in {"u", "d", "s"}
          /\ scene_data.commands[k].delay_ms >= 0
    /\ scene_data.retry_count >= 0 /\ scene_data.retry_count <= 5
    /\ scene_data.timeout_seconds >= 1 /\ scene_data.timeout_seconds <= 300

\* load_scene(scene_name): FileNotFoundError, ValueError or the scene.
load_scene(scene_name) ==
    IF scene_name \notin DOMAIN SceneFiles THEN [raised |-> "FileNotFoundError"]
    ELSE IF ~SceneDefinition(SceneFiles[scene_name]) THEN [raised |-> "ValueError"]
    ELSE [raised |-> "", scene |-> SceneFiles[scene_name]]

\* SceneExecutionRequest: an override is absent (the empty set) or one
\* integer within the field's range.
SceneExecutionRequest(execution_params) ==
    /\ \A r \in execution_params.override_retry_count : r >= 0 /\ r <= 10
    /\ \A t \in execution_params.override_timeout : t >= 1 /\ t <= 600

\* The request bodies sent in the model.
ExecutionParams ==
    [override_retry_count : {{}, {2}, {6}, {11}},
     override_timeout : {{}, {301}, {601}},
     dry_run : BOOLEAN]

\* `override if override is not None else default`
Override(override, default) ==
    IF override = {} THEN default ELSE CHOOSE x \in override : TRUE

NoSceneRequest ==
    [pc |-> "none", scene_name |-> "", dry_run |-> FALSE, status |-> "",
     commands |-> <<>>, retry_count |-> 0, timeout_seconds |-> 0,
     i |-> 0, elapsed_ms |-> 0, timed_out |-> FALSE,
     sent |-> <<>>, results |-> <<>>, retry_task |-> 0, timestamp |-> 0]

SceneIdle ==
    /\ scene_request = NoSceneRequest
    /\ scene_execution_logs = <<>>

(* ------------------------------ the clock ----------------------------- *)
burst_timeout == 10
zombie_cleanup_age == 12
sweep_interval == 60

NoWaiter == [pc |-> "idle", task_id |-> 0, deadline |-> 0, ret |-> FALSE]

\* AsyncRetryService.__init__ at time 0: the sweep task is created and will
\* sleep for its first 60 s.
ClockIdle ==
    /\ now = 0
    /\ next_sweep = sweep_interval
    /\ task_times = <<>>
    /\ zombie_metrics = [total_zombies_cleaned |-> 0, total_timeout_kills |-> 0]
    /\ waiter = NoWaiter

(* ------------------------------ system -------------------------------- *)
\* AsyncRetryService.__init__
SchedulerInit ==
    /\ tasks = <<>>
    /\ task_counter = 0
    /\ active_tasks = {}
    /\ active_shade_tasks = <<>>
    /\ cancelled_tasks = {}

\* The scheduler on its own: what a transmission does to the link is left
\* out (Transmit only records the attempt), so the link and the encoder
\* stay as they are.
LinkUntouched == UNCHANGED <<linkVars, encVars, sceneVars, clockVars>>

Init == SchedulerInit /\ LinkIdle /\ EncIdle /\ SceneIdle /\ ClockIdle

Created == DOMAIN tasks

Next ==
    \/ (\E s \in Shades, a \in Actions : queue_fire_and_forget_sequence(s, a)) /\ LinkUntouched
    \/ (\E s \in Shades : CancelShade(s)) /\ LinkUntouched
    \/ (\E t \in Created : cancel_task(t)) /\ LinkUntouched
    \/ (cancel_all_tasks) /\ LinkUntouched
    \/ (\E t \in Created : BurstStart(t)) /\ LinkUntouched
    \/ (\E t \in Created : BurstResume(t)) /\ LinkUntouched
    \/ (\E t \in Created : BurstCancelled(t)) /\ LinkUntouched
    \/ (\E t \in Created : BurstTimeout(t)) /\ LinkUntouched
    \/ (\E c \in SceneDefs, r \in 0..MaxRetryCount : queue_scene_execution(c, r)) /\ LinkUntouched
    \/ (\E c \in SceneDefs, r \in 0..MaxRetryCount :
           queue_scene_retries(c, r, delay_between_commands_ms)) /\ LinkUntouched
    \/ (\E t \in Created : SceneStep(t)) /\ LinkUntouched
    \/ (\E t \in Created : SceneCancelled(t)) /\ LinkUntouched
    \/ (\E t \in Created : SceneTimeout(t)) /\ LinkUntouched
    \/ (\E t \in Created : RetriesStep(t)) /\ LinkUntouched
    \/ (\E t \in Created : RetriesCancelled(t)) /\ LinkUntouched
    \/ (\E oldest \in 0..task_counter : cleanup_old_tasks(oldest)) /\ LinkUntouched

Spec == Init /\ [][Next]_vars

\* get_task_stats(): the fields that do not depend on the clock.
get_task_stats ==
    [total_active_tasks |-> Cardinality(active_tasks),
     active_shade_tasks |-> Cardinality(DOMAIN active_shade_tasks),
     total_cancelled_tasks |-> Cardinality(cancelled_tasks),
     active_task_ids |-> active_tasks,
     shade_task_mapping |-> active_shade_tasks]

(* ------------------- the link owner, step by step --------------------- *)
(***************************************************************************)
(* SmartArduinoConnection is used from the event-loop thread (every        *)
(* coroutine of the application) and is written for a second thread, the   *)
(* hourly health check of _start_background_health_check, whose start is   *)
(* commented out in __init__.  The model keeps that thread as the other    *)
(* user of connection_lock: a behaviour in which it never wakes is the     *)
(* application as shipped.  A link call of the event-loop thread blocks    *)
(* the loop, so no other coroutine moves until it has returned (LoopIdle). *)
(* A call is cut at each acquisition of the lock and at the start and the  *)
(* end of each serial write; a write is in flight between the two.         *)
(***************************************************************************)
LinkState == [serial_connection |-> serial_connection, current_port |-> current_port,
              connection_lock |-> connection_lock, call |-> call, health |-> health,
              in_flight |-> in_flight]

CommitLink(l) ==
    /\ serial_connection' = l.serial_connection
    /\ current_port' = l.current_port
    /\ connection_lock' = l.connection_lock
    /\ call' = l.call
    /\ health' = l.health
    /\ in_flight' = l.in_flight

\* A step of the link owner alone.
LinkOnly(l) ==
    /\ CommitLink(l)
    /\ UNCHANGED <<schedVars, encVars, sceneVars, clockVars, devices, attempt_results, response>>

Binding == <<serial_connection, current_port>>
LoopIdle == call.op = "idle"
Write(port, line, by) == [port |-> port, line |-> line, by |-> by]

\* send_shade_command_fast / send_shade_command_single_shot from their
\* first line to the first lock operation of send_command_fast: the
\* validation, the lookup, the encoding and the fast-fail test.
BeginSend(kind, task, shade_id, cmd_type) ==
    LET prep == PrepareCommand(shade_id, cmd_type)
        base == [NoCall EXCEPT !.op = "send", !.kind = kind, !.task = task,
                               !.shade_id = shade_id, !.action = cmd_type,
                               !.pre = Binding]
    IN IF ~prep.ok
       THEN [base EXCEPT !.pc = "returned", !.result = prep.why]
       ELSE IF serial_connection = 0
       THEN [base EXCEPT !.pc = "returned", !.result = "no_connection", !.line = prep.line]
       ELSE [base EXCEPT !.pc = "acquire", !.line = prep.line]

\* shade_service.execute_shade_command -> send_shade_command -> ..._fast
\* (batch route, scene router): the action is whatever the caller passed.
send_shade_command_fast(shade_id, cmd_type) ==
    /\ LoopIdle
    /\ LinkOnly([LinkState EXCEPT !.call = BeginSend("fast", 0, shade_id, cmd_type)])

\* A single-shot send that goes on to the lock without testing that a
\* connection is cached.
send_shade_command_single_shot_no_fast_fail(shade_id, cmd_type) ==
    /\ LoopIdle
    /\ LET c == BeginSend("single_shot", 0, shade_id, cmd_type)
       IN LinkOnly([LinkState EXCEPT
              !.call = IF c.result = "no_connection"
                       THEN [c EXCEPT !.pc = "acquire", !.result = ""] ELSE c])

\* A scene step's transmission.
send_shade_command_single_shot(shade_id, cmd_type) ==
    /\ LoopIdle
    /\ LinkOnly([LinkState EXCEPT !.call = BeginSend("single_shot", 0, shade_id, cmd_type)])

\* send_command_fast that goes on without the lock.
SendAcquire_no_lock ==
    /\ call.op = "send" /\ call.pc = "acquire"
    /\ LinkOnly([LinkState EXCEPT !.call.pc = "locked"])

\* connection_lock.acquire(timeout=1.0) succeeds.
SendAcquire ==
    /\ call.op = "send" /\ call.pc = "acquire"
    /\ connection_lock = "free"
    /\ LinkOnly([LinkState EXCEPT !.connection_lock = "loop", !.call.pc = "locked"])

\* send_command_fast that writes anyway when the lock wait times out.
SendLockTimeout_write_anyway ==
    /\ call.op = "send" /\ call.pc = "acquire"
    /\ connection_lock # "free"
    /\ LinkOnly([LinkState EXCEPT !.call.pc = "locked"])

\* connection_lock.acquire(timeout=1.0) returns False: another thread held
\* the lock until the wait ran out.
SendLockTimeout ==
    /\ call.op = "send" /\ call.pc = "acquire"
    /\ connection_lock # "free"
    /\ LinkOnly([LinkState EXCEPT !.call.pc = "returned", !.call.result = "lock_timeout"])

\* reset buffers, then serial_connection.write(...) begins.
SendWriteBegin ==
    /\ call.op = "send" /\ call.pc = "locked"
    /\ LinkOnly([LinkState EXCEPT
           !.in_flight = @ \cup {Write(serial_connection, call.line, "loop")},
           !.call.pc = "writing", !.call.port = serial_connection])

\* send_command_fast that drops the connection when a write fails.
SendWriteEnd_teardown(outcome) ==
    /\ call.op = "send" /\ call.pc = "writing"
    /\ LinkOnly([LinkState EXCEPT
           !.in_flight = @ \ {Write(call.port, call.line, "loop")},
           !.serial_connection = IF outcome = "ok" THEN @ ELSE 0,
           !.current_port = IF outcome = "ok" THEN @ ELSE 0,
           !.call.pc = "release", !.call.result = outcome])

\* The write returns, or raises SerialTimeoutException or another exception.
SendWriteEnd(outcome) ==
    /\ call.op = "send" /\ call.pc = "writing"
    /\ LinkOnly([LinkState EXCEPT
           !.in_flight = @ \ {Write(call.port, call.line, "loop")},
           !.call.pc = "release", !.call.result = outcome])

WriteOutcomes == {"ok", "write_timeout", "write_error"}

\* A get_connection that calls _establish_connection inside its
\* `with connection_lock` block.
LoopRelease_establish_inside_with ==
    /\ call.pc \in {"release", "release_then_establish"}
    /\ LinkOnly([LinkState EXCEPT
           !.connection_lock = IF call.pc = "release" THEN "free" ELSE @,
           !.call.pc = IF call.pc = "release" THEN "returned" ELSE "est_acquire"])

\* The end of a `with connection_lock` block or of the try/finally of
\* send_command_fast.  get_connection goes on to _establish_connection
\* when its probe of the cached connection failed.
LoopRelease ==
    /\ call.pc \in {"release", "release_then_establish"}
    /\ LinkOnly([LinkState EXCEPT
           !.connection_lock = "free",
           !.call.pc = IF call.pc = "release" THEN "returned" ELSE "est_acquire"])

\* send_shade_command returns to the service layer, which answers with
\* the result's success flag.
ServiceReturn ==
    /\ call.op = "send" /\ call.pc = "returned" /\ call.task = 0
    /\ call' = NoCall
    /\ response' = [success |-> call.result = "ok", task_id |-> 0]
    /\ UNCHANGED <<schedVars, encVars, sceneVars, clockVars, serial_connection, current_port, connection_lock,
                   health, devices, in_flight, attempt_results>>

\* reconnect(): force_arduino_reconnect at start-up and on the health route.
reconnect ==
    /\ LoopIdle
    /\ LinkOnly([LinkState EXCEPT
           !.call = [NoCall EXCEPT !.op = "reconnect", !.pc = "est_acquire", !.pre = Binding]])

\* get_connection(): probe the cached connection, else establish one.
get_connection ==
    /\ LoopIdle
    /\ LinkOnly([LinkState EXCEPT
           !.call = [NoCall EXCEPT !.op = "get_connection",
                                   !.kind = IF serial_connection # 0 THEN "cached" ELSE "",
                                   !.pc = IF serial_connection # 0 THEN "gc_acquire" ELSE "est_acquire",
                                   !.pre = Binding]])

\* get_connection: `with self.connection_lock` around the probe.
GcAcquire ==
    /\ call.pc = "gc_acquire"
    /\ connection_lock = "free"
    /\ LinkOnly([LinkState EXCEPT !.connection_lock = "loop", !.call.pc = "health"])

\* _establish_connection: take the lock, drop the existing connection.
EstAcquire ==
    /\ call.pc = "est_acquire"
    /\ connection_lock = "free"
    /\ LinkOnly([LinkState EXCEPT
           !.connection_lock = "loop",
           !.serial_connection = 0, !.current_port = 0,
           !.call.kind = "", !.call.pc = "scan", !.call.port = 1])

\* The next port to test after call.port, or the end of the scan.
ScanNext(l) ==
    IF l.call.port < NumPorts
    THEN [l EXCEPT !.call.port = @ + 1]
    ELSE [l EXCEPT !.call.pc = "release", !.call.result = "failed", !.call.port = 0]

\* _find_arduino_port: the port cannot be opened (the exception is caught
\* and the scan continues).
ScanSkip ==
    /\ call.pc = "scan"
    /\ call.port \notin devices
    /\ LinkOnly(ScanNext(LinkState))

\* _find_arduino_port: test_ser.write(b'INFO\n') begins.
ScanWriteBegin ==
    /\ call.pc = "scan"
    /\ LinkOnly([LinkState EXCEPT
           !.in_flight = @ \cup {Write(call.port, INFO, "loop")},
           !.call.pc = "scan_write"])

\* The probe is written and the answer awaited (3 s).  A matching answer
\* ends the scan: the port is opened and becomes the binding.
ScanWriteEnd ==
    /\ call.pc = "scan_write"
    /\ LET l == [LinkState EXCEPT
                    !.in_flight = @ \ {Write(call.port, INFO, "loop")},
                    !.call.pc = "scan"]
       IN IF call.port \in devices
          THEN LinkOnly([l EXCEPT !.serial_connection = call.port,
                                  !.current_port = call.port,
                                  !.call.pc = "health"])
          ELSE LinkOnly(ScanNext(l))

\* _test_connection_health by the event-loop thread: write INFO.
ProbeBegin ==
    /\ call.pc = "health"
    /\ LinkOnly([LinkState EXCEPT
           !.in_flight = @ \cup {Write(serial_connection, INFO, "loop")},
           !.call.pc = "health_write", !.call.port = serial_connection])

\* ... and read for up to 1 s.  In _establish_connection a dead connection
\* is closed again; in get_connection it is re-established.
ProbeEnd ==
    /\ call.pc = "health_write"
    /\ LET l == [LinkState EXCEPT
                    !.in_flight = @ \ {Write(call.port, INFO, "loop")},
                    !.call.port = 0]
       IN IF serial_connection \in devices
          THEN LinkOnly([l EXCEPT !.call.pc = "release", !.call.result = "ok"])
          ELSE IF call.kind = "cached"
          THEN LinkOnly([l EXCEPT !.call.pc = "release_then_establish"])
          ELSE LinkOnly([l EXCEPT !.serial_connection = 0, !.current_port = 0,
                                  !.call.pc = "release", !.call.result = "failed"])

\* close(): cleanup_arduino_connection.
close ==
    /\ LoopIdle
    /\ LinkOnly([LinkState EXCEPT
           !.call = [NoCall EXCEPT !.op = "close", !.pc = "close_acquire", !.pre = Binding]])

CloseAcquire ==
    /\ call.pc = "close_acquire"
    /\ connection_lock = "free"
    /\ LinkOnly([LinkState EXCEPT
           !.connection_lock = "loop",
           !.serial_connection = 0, !.current_port = 0,
           !.call.pc = "release", !.call.result = "ok"])

\* reconnect, get_connection or close returns to its caller.
LinkReturn ==
    /\ call.op \in {"reconnect", "get_connection", "close"} /\ call.pc = "returned"
    /\ LinkOnly([LinkState EXCEPT !.call = NoCall])

(* -------------------- the health-check thread ------------------------- *)
\* time.sleep(3600) ends and a check is due.
HealthWake ==
    /\ health = "sleep"
    /\ LinkOnly([LinkState EXCEPT !.health = "acquire"])

\* connection_lock.acquire(timeout=5.0) succeeds.
HealthAcquire ==
    /\ health = "acquire"
    /\ connection_lock = "free"
    /\ LinkOnly([LinkState EXCEPT !.connection_lock = "health", !.health = "locked"])

\* ... or times out: the check is skipped.
HealthLockTimeout ==
    /\ health = "acquire"
    /\ connection_lock # "free"
    /\ LinkOnly([LinkState EXCEPT !.health = "sleep"])

\* _test_connection_health: nothing to probe, or the INFO write begins.
HealthProbeBegin ==
    /\ health = "locked"
    /\ IF serial_connection = 0
       THEN LinkOnly([LinkState EXCEPT !.health = "release"])
       ELSE LinkOnly([LinkState EXCEPT
                !.in_flight = @ \cup {Write(serial_connection, INFO, "health")},
                !.health = "write"])

HealthProbeEnd ==
    /\ health = "write"
    /\ \E w \in in_flight :
          /\ w.by = "health"
          /\ LinkOnly([LinkState EXCEPT !.in_flight = @ \ {w},
                                        !.health = "release"])

HealthRelease ==
    /\ health = "release"
    /\ LinkOnly([LinkState EXCEPT !.connection_lock = "free", !.health = "sleep"])

(* --------------------------- environment ------------------------------ *)
\* The controller is plugged into a port / stops answering on it.
Plug(p) ==
    /\ p \notin devices
    /\ devices' = devices \cup {p}
    /\ UNCHANGED <<schedVars, encVars, sceneVars, clockVars, serial_connection, current_port, connection_lock,
                   call, health, in_flight, attempt_results, response>>

Unplug(p) ==
    /\ p \in devices
    /\ devices' = devices \ {p}
    /\ UNCHANGED <<schedVars, encVars, sceneVars, clockVars, serial_connection, current_port, connection_lock,
                   call, health, in_flight, attempt_results, response>>

(* -------------- single-shade commands over the link ------------------- *)
\* control_shade that sends the first command itself before it answers.
control_shade_sync_first_command(shade_id, action) ==
    /\ LoopIdle
    /\ task_counter < MaxLinkTasks
    /\ queue_fire_and_forget_sequence(shade_id, action)
    /\ call' = BeginSend("fast", 0, shade_id, action)
    /\ response' = [success |-> TRUE, task_id |-> task_counter + 1]
    /\ UNCHANGED <<encVars, sceneVars, clockVars, serial_connection, current_port, connection_lock,
                   health, devices, in_flight, attempt_results>>

\* PUT /shades/{shade_id}/command: queue the burst, answer success.
control_shade(shade_id, action) ==
    /\ LoopIdle
    /\ task_counter < MaxLinkTasks
    /\ queue_fire_and_forget_sequence(shade_id, action)
    /\ response' = [success |-> TRUE, task_id |-> task_counter + 1]
    /\ UNCHANGED <<encVars, sceneVars, clockVars, serial_connection, current_port, connection_lock, call,
                   health, devices, in_flight, attempt_results>>

\* A burst reaches one of its send_shade_command_fast calls.
AttemptBegin(t) ==
    /\ LoopIdle
    /\ tasks[t].kind = "burst" /\ tasks[t].pc \in {"unstarted", "sleep"}
    /\ ~tasks[t].cancelReq
    /\ LinkOnly([LinkState EXCEPT
           !.call = BeginSend("fast", t, tasks[t].shade_id, tasks[t].action)])

ResultsOf(t) == IF t \in DOMAIN attempt_results THEN attempt_results[t] ELSE <<>>

\* A burst that gives up at the first failed attempt.
AttemptReturn_abort_on_failure(t) ==
    /\ call.op = "send" /\ call.pc = "returned" /\ call.task = t
    /\ IF call.result = "ok"
       THEN BurstStart(t) \/ BurstResume(t)
       ELSE /\ Commit(burst_finally([State EXCEPT !.tasks = Finish(tasks, t, "failed")], t))
            /\ UNCHANGED task_counter
    /\ call' = NoCall
    /\ attempt_results' = Put(attempt_results, t, Append(ResultsOf(t), call.result))
    /\ UNCHANGED <<encVars, sceneVars, clockVars, serial_connection, current_port, connection_lock,
                   health, devices, in_flight, response>>

\* The call returns to the burst: the result is logged, and the burst goes
\* on to its next sleep or to its end whatever the result was.
AttemptReturn(t) ==
    /\ call.op = "send" /\ call.pc = "returned" /\ call.task = t
    /\ (BurstStart(t) \/ BurstResume(t))
    /\ call' = NoCall
    /\ attempt_results' = Put(attempt_results, t, Append(ResultsOf(t), call.result))
    /\ UNCHANGED <<encVars, sceneVars, clockVars, serial_connection, current_port, connection_lock,
                   health, devices, in_flight, response>>

\* The link owner and its direct callers.
NextLink ==
    \/ \E s \in RequestShades, a \in RequestActions : send_shade_command_fast(s, a)
    \/ \E s \in RequestShades, a \in Actions : send_shade_command_single_shot(s, a)
    \/ SendAcquire
    \/ SendLockTimeout
    \/ SendWriteBegin
    \/ \E o \in WriteOutcomes : SendWriteEnd(o)
    \/ LoopRelease
    \/ ServiceReturn
    \/ reconnect
    \/ get_connection
    \/ GcAcquire
    \/ EstAcquire
    \/ ScanSkip
    \/ ScanWriteBegin
    \/ ScanWriteEnd
    \/ ProbeBegin
    \/ ProbeEnd
    \/ close
    \/ CloseAcquire
    \/ LinkReturn
    \/ HealthWake
    \/ HealthAcquire
    \/ HealthLockTimeout
    \/ HealthProbeBegin
    \/ HealthProbeEnd
    \/ HealthRelease
    \/ \E p \in Ports : Plug(p)
    \/ \E p \in Ports : Unplug(p)

SpecLink == Init /\ [][NextLink]_vars

\* Single-shade commands: the route, the bursts it queues, and the link
\* the bursts transmit through (bound by reconnect, shared with the
\* health-check thread).
NextShade ==
    \/ \E s \in RequestShades, a \in Actions : control_shade(s, a)
    \/ \E t \in Created : AttemptBegin(t)
    \/ \E t \in Created : AttemptReturn(t)
    \/ (\E s \in RequestShades : LoopIdle /\ CancelShade(s)) /\ LinkUntouched
    \/ (\E t \in Created : LoopIdle /\ BurstCancelled(t)) /\ LinkUntouched
    \/ SendAcquire
    \/ SendLockTimeout
    \/ SendWriteBegin
    \/ \E o \in WriteOutcomes : SendWriteEnd(o)
    \/ LoopRelease
    \/ reconnect
    \/ EstAcquire
    \/ ScanSkip
    \/ ScanWriteBegin
    \/ ScanWriteEnd
    \/ ProbeBegin
    \/ ProbeEnd
    \/ LinkReturn
    \/ HealthWake
    \/ HealthAcquire
    \/ HealthLockTimeout
    \/ HealthProbeBegin
    \/ HealthProbeEnd
    \/ HealthRelease
    \/ \E p \in Ports : Plug(p)
    \/ \E p \in Ports : Unplug(p)

SpecShade == Init /\ [][NextShade]_vars

(* ---------------------- the encoder on its own ------------------------ *)
\* Shade records the encoder is applied to: remote ids over the byte range,
\* both remote families, channel tags around 'CC', byte strings with and
\* without spaces, payloads that are configured, 'FF FF' or empty.
RemoteIds == {0, 9, 10, 15, 16, 171, 254, 255}
ChannelTags == {"A1", "CC", "C", "cc"}
HeaderStrings == { <<"5", "C", " ", "2", "D", " ", "0", "D", " ", "3", "9">>,
                   <<"A", "A", "B", "B">> }
IdentifierStrings == { <<"F", "E", " ", "F", "F">> }
PayloadStrings == { <<"F", "4", " ", "6", "9">>, <<"A", "A", " ", "B", "B">>, FF_FF, <<>> }
CommonBytes == {0, 80}

ShadeRecords ==
    [remote_id : RemoteIds, remote_type : {"AC123-06D", "AC123-16D"},
     channel : ChannelTags, header_bytes : HeaderStrings,
     identifier_bytes : IdentifierStrings,
     up_command : PayloadStrings, down_command : {<<"A", "A", " ", "B", "B">>, FF_FF},
     stop_command : {<<"F", "4", " ", "6", "9">>, <<>>},
     common_byte : CommonBytes]

InitEncode ==
    /\ SchedulerInit /\ LinkIdle /\ SceneIdle /\ ClockIdle
    /\ shade_data \in ShadeRecords
    /\ command \in Actions
    /\ arduino_command = Rejected("")

\* The try block of send_shade_command_fast applied to the record.
Encode ==
    /\ arduino_command' = EncodeRecord(shade_data, command)
    /\ UNCHANGED <<schedVars, linkVars, sceneVars, clockVars, shade_data, command>>

\* The same record is asked for another action.
NextAction(cmd_type) ==
    /\ cmd_type # command
    /\ command' = cmd_type
    /\ arduino_command' = Rejected("")
    /\ UNCHANGED <<schedVars, linkVars, sceneVars, clockVars, shade_data>>

NextEncode ==
    \/ Encode
    \/ \E c \in Actions : NextAction(c)

SpecEncode == InitEncode /\ [][NextEncode]_vars

(* ----------------------- scene router, step by step ------------------- *)
(***************************************************************************)
(* execute_scene is a coroutine of the event loop: it runs the first cycle *)
(* of the scene itself, suspending at each post-step asyncio.sleep, then   *)
(* queues the background retry cycles, appends the execution-log entry and *)
(* answers.  One request is handled at a time.  Whether a transmission     *)
(* succeeds is not modelled here; the time.time() differences are the sum  *)
(* of the delays slept.                                                    *)
(***************************************************************************)
MaxSceneRuns == 2
MaxLogged == 103

\* The timestamp of the newest log entry (0: no entry yet).
LastStamp(logs) == IF logs = <<>> THEN 0 ELSE logs[Len(logs)].execution_time

\* _log_scene_execution that keeps the first 100 entries.
log_scene_execution_keep_first(logs, scene_name, total_commands) ==
    LET log_entry == [scene_name |-> scene_name, total_commands |-> total_commands,
                      execution_time |-> LastStamp(logs) + 1]
        appended == Append(logs, log_entry)
    IN IF Len(appended) > MaxLogEntries
       THEN SubSeq(appended, 1, MaxLogEntries)
       ELSE appended

\* _log_scene_execution: append, then keep the last 100.  execution_time
\* is the entry's timestamp; entries are stamped in the order they are made.
log_scene_execution(logs, scene_name, total_commands) ==
    LET log_entry == [scene_name |-> scene_name, total_commands |-> total_commands,
                      execution_time |-> LastStamp(logs) + 1]
        appended == Append(logs, log_entry)
    IN IF Len(appended) > MaxLogEntries
       THEN SubSeq(appended, Len(appended) - MaxLogEntries + 1, Len(appended))
       ELSE appended

\* The dry-run branch: one planned result per command.
DryRunResults(commands) ==
    [k \in 1..Len(commands) |->
        [shade_id |-> commands[k].shade_id, action |-> commands[k].action]]

\* The first-cycle loop of execute_scene from the top of command i up to
\* its next asyncio.sleep or the end of the loop; `slept` is the delay slept
\* just before.
RECURSIVE first_cycle(_, _, _)
first_cycle(req, i, slept) ==
    IF i > Len(req.commands) THEN [req EXCEPT !.pc = "after_loop"]
    ELSE IF req.elapsed_ms > req.timeout_seconds * 1000
    THEN [req EXCEPT !.pc = "after_loop", !.timed_out = TRUE]
    ELSE LET cmd == req.commands[i]
             r1 == [req EXCEPT
                      !.sent = Append(@, [shade_id |-> cmd.shade_id,
                                          action |-> cmd.action, after |-> slept]),
                      !.results = Append(@, [shade_id |-> cmd.shade_id,
                                             action |-> cmd.action])]
         IN IF i < Len(req.commands) /\ cmd.delay_ms > 0
            THEN [r1 EXCEPT !.pc = "sleep", !.i = i]
            ELSE first_cycle(r1, i + 1, 0)

\* execute_scene that queues no background cycles.
AfterLoop_no_retries(req) ==
    /\ UNCHANGED schedVars
    /\ scene_execution_logs' =
           log_scene_execution(scene_execution_logs, req.scene_name, Len(req.results))
    /\ scene_request' = [req EXCEPT !.pc = "returned", !.status = "ok",
                                    !.timestamp = LastStamp(scene_execution_logs) + 1]

\* execute_scene after the loop: queue the retry cycles, log, answer.
AfterLoop(req) ==
    LET queued == req.retry_count > 0 /\ req.results # <<>> IN
    /\ IF queued
       THEN queue_scene_retries(req.results, req.retry_count, req.commands[1].delay_ms)
       ELSE UNCHANGED schedVars
    /\ scene_execution_logs' =
           log_scene_execution(scene_execution_logs, req.scene_name, Len(req.results))
    /\ scene_request' = [req EXCEPT !.pc = "returned", !.status = "ok",
                                    !.retry_task = IF queued THEN task_counter + 1 ELSE 0,
                                    !.timestamp = LastStamp(scene_execution_logs) + 1]

\* The handler either suspends in a post-step sleep or runs to its end.
Proceed(req) ==
    IF req.pc = "sleep"
    THEN scene_request' = req /\ UNCHANGED <<schedVars, scene_execution_logs>>
    ELSE AfterLoop(req)

\* A response (its timestamp field is the time of the answer); also the
\* handler's local state when it starts.
Answer(scene_name, execution_params, status) ==
    [NoSceneRequest EXCEPT !.pc = "returned", !.scene_name = scene_name,
                           !.dry_run = execution_params.dry_run, !.status = status,
                           !.timestamp = LastStamp(scene_execution_logs) + 1]

\* execute_scene that records dry runs in the execution log.
execute_scene_logs_dry_run(scene_name, execution_params) ==
    /\ scene_request.pc # "sleep"
    /\ UNCHANGED <<linkVars, encVars, clockVars>>
    /\ LET loaded == load_scene(scene_name) IN
       IF ~SceneExecutionRequest(execution_params)
       THEN /\ scene_request' = Answer(scene_name, execution_params, "RequestValidationError")
            /\ UNCHANGED <<schedVars, scene_execution_logs>>
       ELSE IF loaded.raised = "FileNotFoundError"
       THEN /\ scene_request' = Answer(scene_name, execution_params, "SceneNotFound")
            /\ UNCHANGED <<schedVars, scene_execution_logs>>
       ELSE IF loaded.raised # ""
       THEN /\ scene_request' = Answer(scene_name, execution_params, "SceneExecutionError")
            /\ UNCHANGED <<schedVars, scene_execution_logs>>
       ELSE LET req == [Answer(scene_name, execution_params, "") EXCEPT
                          !.pc = "running",
                          !.commands = loaded.scene.commands,
                          !.retry_count = Override(execution_params.override_retry_count,
                                                   loaded.scene.retry_count),
                          !.timeout_seconds = Override(execution_params.override_timeout,
                                                       loaded.scene.timeout_seconds)]
            IN IF execution_params.dry_run
               THEN /\ scene_request' = [req EXCEPT !.pc = "returned", !.status = "ok",
                                                    !.results = DryRunResults(req.commands)]
                    /\ scene_execution_logs' =
                           log_scene_execution(scene_execution_logs, scene_name,
                                               Len(req.commands))
                    /\ UNCHANGED schedVars
               ELSE Proceed(first_cycle(req, 1, 0))

\* POST /{scene_name}/execute up to the handler's first suspension or its
\* answer.  A body that fails validation is answered before the handler
\* runs.
execute_scene(scene_name, execution_params) ==
    /\ scene_request.pc # "sleep"
    /\ UNCHANGED <<linkVars, encVars, clockVars>>
    /\ LET loaded == load_scene(scene_name) IN
       IF ~SceneExecutionRequest(execution_params)
       THEN /\ scene_request' = Answer(scene_name, execution_params, "RequestValidationError")
            /\ UNCHANGED <<schedVars, scene_execution_logs>>
       ELSE IF loaded.raised = "FileNotFoundError"
       THEN /\ scene_request' = Answer(scene_name, execution_params, "SceneNotFound")
            /\ UNCHANGED <<schedVars, scene_execution_logs>>
       ELSE IF loaded.raised # ""
       THEN /\ scene_request' = Answer(scene_name, execution_params, "SceneExecutionError")
            /\ UNCHANGED <<schedVars, scene_execution_logs>>
       ELSE LET req == [Answer(scene_name, execution_params, "") EXCEPT
                          !.pc = "running",
                          !.commands = loaded.scene.commands,
                          !.retry_count = Override(execution_params.override_retry_count,
                                                   loaded.scene.retry_count),
                          !.timeout_seconds = Override(execution_params.override_timeout,
                                                       loaded.scene.timeout_seconds)]
            IN IF execution_params.dry_run
               THEN /\ scene_request' = [req EXCEPT !.pc = "returned", !.status = "ok",
                                                    !.results = DryRunResults(req.commands)]
                    /\ UNCHANGED <<schedVars, scene_execution_logs>>
               ELSE Proceed(first_cycle(req, 1, 0))

\* A post-step sleep of the handler ends.
ExecuteSceneResume ==
    /\ scene_request.pc = "sleep"
    /\ UNCHANGED <<linkVars, encVars, clockVars>>
    /\ LET delay_ms == scene_request.commands[scene_request.i].delay_ms
           req == [scene_request EXCEPT !.pc = "running", !.elapsed_ms = @ + delay_ms]
       IN Proceed(first_cycle(req, scene_request.i + 1, delay_ms))

NextScene ==
    \/ /\ Len(scene_execution_logs) < MaxSceneRuns
       /\ task_counter < MaxTasks
       /\ \E n \in SceneNames, p \in ExecutionParams : execute_scene(n, p)
    \/ ExecuteSceneResume
    \/ (\E t \in Created : RetriesStep(t)) /\ LinkUntouched
    \/ (\E t \in Created : RetriesCancelled(t)) /\ LinkUntouched
    \/ (\E t \in Created : cancel_task(t)) /\ LinkUntouched
    \/ (\E oldest \in 0..task_counter : cleanup_old_tasks(oldest)) /\ LinkUntouched

SpecScene == Init /\ [][NextScene]_vars

\* One more execution of a one-step scene without retry cycles: the
\* request is answered in one step, with one more log entry.
ExecuteOneStepScene ==
    /\ LastStamp(scene_execution_logs) < MaxLogged
    /\ execute_scene("all_up", [override_retry_count |-> {}, override_timeout |-> {},
                                dry_run |-> FALSE])

SpecLog == Init /\ [][ExecuteOneStepScene]_vars

(* ------------------------ the scheduler on a clock -------------------- *)
(***************************************************************************)
(* The scheduler with the wall clock, in whole seconds.  A task carries    *)
(* its creation time in its id; a burst or a scene enters its              *)
(* asyncio.wait_for at its first step, and the timeout counts from there.  *)
(* A sleeping task may resume late (the loop is blocked during a link      *)
(* call) but not once its timeout is due: the timeout's timer runs before  *)
(* the task's wake-up.  The sleep lengths themselves are not enforced.     *)
(* The clock starts FirstInstant seconds into the life of the service,     *)
(* which has been idle until then, so that the first sweep (at 60 s) finds *)
(* tasks on both sides of the 12 s limit.                                  *)
(***************************************************************************)
FirstInstant == 47
MaxNow == 61
MaxWaitTimeout == 2
\* Requests arrive up to this instant.
LastArrival == 48

\* The scene queued on the clock.
ClockScene == << [shade_id |-> 1, action |-> "u", delay_ms |-> 750],
                 [shade_id |-> 2, action |-> "d", delay_ms |-> 750] >>

\* timeout_seconds of the scenes queued on the clock.
ClockSceneTimeouts == {3, 30}

OffTheLink == UNCHANGED <<linkVars, encVars, sceneVars>>

Age(t) == now - task_times[t].created

\* _generate_task_id puts the time in the id; the wait_for of the task is
\* entered later, at the task's first step.
Stamp(t, timeout) ==
    Put(task_times, t, [created |-> now, timeout |-> timeout, entered |-> -1])

Enter(t) ==
    IF tasks[t].pc = "unstarted" THEN [task_times EXCEPT ![t].entered = now]
    ELSE task_times

Expired(t) ==
    /\ task_times[t].entered >= 0
    /\ now >= task_times[t].entered + task_times[t].timeout

TimedQueueBurst(shade_id, action) ==
    /\ queue_fire_and_forget_sequence(shade_id, action)
    /\ task_times' = Stamp(task_counter + 1, burst_timeout)
    /\ UNCHANGED <<now, next_sweep, zombie_metrics, waiter>>
    /\ OffTheLink

TimedQueueScene(cmds, retry_count, timeout_seconds) ==
    /\ queue_scene_execution(cmds, retry_count)
    /\ task_times' = Stamp(task_counter + 1, timeout_seconds)
    /\ UNCHANGED <<now, next_sweep, zombie_metrics, waiter>>
    /\ OffTheLink

\* timeout_protected_sequence: the burst runs inside wait_for(10.0).
timeout_protected_sequence(t) ==
    /\ ~Expired(t)
    /\ IF tasks[t].pc = "unstarted" THEN BurstStart(t) ELSE BurstResume(t)
    /\ task_times' = Enter(t)
    /\ UNCHANGED <<now, next_sweep, zombie_metrics, waiter>>
    /\ OffTheLink

\* A TimeoutError handler that forgets to count.
BurstTimeoutError_not_counted(t) ==
    /\ Expired(t)
    /\ BurstTimeout(t)
    /\ UNCHANGED clockVars
    /\ OffTheLink

\* ... except asyncio.TimeoutError: total_timeout_kills += 1; raise
BurstTimeoutError(t) ==
    /\ Expired(t)
    /\ BurstTimeout(t)
    /\ zombie_metrics' = [zombie_metrics EXCEPT !.total_timeout_kills = @ + 1]
    /\ UNCHANGED <<now, next_sweep, task_times, waiter>>
    /\ OffTheLink

\* timeout_protected_scene: the scene runs inside wait_for(timeout_seconds).
timeout_protected_scene(t) ==
    /\ ~Expired(t)
    /\ SceneStep(t)
    /\ task_times' = Enter(t)
    /\ UNCHANGED <<now, next_sweep, zombie_metrics, waiter>>
    /\ OffTheLink

\* ... except asyncio.TimeoutError: logged, not re-raised.
SceneTimeoutError(t) ==
    /\ Expired(t)
    /\ SceneTimeout(t)
    /\ UNCHANGED clockVars
    /\ OffTheLink

\* The CancelledError of Task.cancel() reaches the task.
TimedCancelled(t) ==
    /\ IF tasks[t].kind = "burst" THEN BurstCancelled(t) ELSE SceneCancelled(t)
    /\ UNCHANGED clockVars
    /\ OffTheLink

Tick ==
    /\ now < MaxNow
    /\ now' = now + 1
    /\ UNCHANGED <<schedVars, next_sweep, task_times, zombie_metrics, waiter>>
    /\ OffTheLink

\* The tasks a pass of _cleanup_old_tasks finds older than `age` seconds.
OlderThan(age) == {t \in active_tasks : Age(t) > age}

Newest(ids) == IF ids = {} THEN 0 ELSE CHOOSE x \in ids : \A y \in ids : y <= x

\* A pass that force-kills at the age of the zombie warning (6 s).
SweepPass_at_warning_age ==
    /\ now >= next_sweep
    /\ next_sweep' = now + sweep_interval
    /\ cleanup_old_tasks(Newest(OlderThan(6)))
    /\ zombie_metrics' = [zombie_metrics EXCEPT
           !.total_zombies_cleaned = @ + Cardinality(OlderThan(6))]
    /\ UNCHANGED <<now, task_times, waiter>>
    /\ OffTheLink

\* One pass of _cleanup_old_tasks after its asyncio.sleep(60): ids are
\* issued in time order, so the tasks older than 12 s are the ids up to the
\* newest of them.
SweepPass ==
    /\ now >= next_sweep
    /\ next_sweep' = now + sweep_interval
    /\ cleanup_old_tasks(Newest(OlderThan(zombie_cleanup_age)))
    /\ zombie_metrics' = [zombie_metrics EXCEPT
           !.total_zombies_cleaned = @ + Cardinality(OlderThan(zombie_cleanup_age))]
    /\ UNCHANGED <<now, task_times, waiter>>
    /\ OffTheLink

\* wait_for_task(task_id, timeout) up to its await.
wait_for_task(task_id, timeout) ==
    /\ waiter.pc \in {"idle", "returned"}
    /\ waiter' = IF task_id \notin active_tasks
                 THEN [pc |-> "returned", task_id |-> task_id, deadline |-> 0, ret |-> FALSE]
                 ELSE [pc |-> "waiting", task_id |-> task_id,
                       deadline |-> now + timeout, ret |-> FALSE]
    /\ UNCHANGED <<schedVars, now, next_sweep, task_times, zombie_metrics>>
    /\ OffTheLink

\* asyncio.wait_for(task, timeout) runs out of time: it cancels the task
\* it was given and waits for the cancellation to arrive.
WaitTimeout ==
    /\ waiter.pc = "waiting"
    /\ now >= waiter.deadline
    /\ tasks[waiter.task_id].pc # "done"
    /\ tasks' = TaskCancel(tasks, waiter.task_id)
    /\ waiter' = [waiter EXCEPT !.pc = "cancelling"]
    /\ UNCHANGED <<task_counter, active_tasks, active_shade_tasks, cancelled_tasks,
                   now, next_sweep, task_times, zombie_metrics>>
    /\ OffTheLink

\* The awaited task is done: True when it returned, False when awaiting it
\* raised (CancelledError, the burst's TimeoutError) or the wait timed out.
WaitReturn ==
    /\ waiter.pc \in {"waiting", "cancelling"}
    /\ tasks[waiter.task_id].pc = "done"
    /\ waiter' = [waiter EXCEPT
           !.pc = "returned",
           !.ret = /\ waiter.pc = "waiting"
                   /\ \/ tasks[waiter.task_id].exit = "completed"
                      \/ /\ tasks[waiter.task_id].exit = "timeout"
                         /\ tasks[waiter.task_id].kind = "scene"]
    /\ UNCHANGED <<schedVars, now, next_sweep, task_times, zombie_metrics>>
    /\ OffTheLink

InitClock ==
    /\ SchedulerInit /\ LinkIdle /\ EncIdle /\ SceneIdle
    /\ now = FirstInstant
    /\ next_sweep = sweep_interval
    /\ task_times = <<>>
    /\ zombie_metrics = [total_zombies_cleaned |-> 0, total_timeout_kills |-> 0]
    /\ waiter = NoWaiter

NextClock ==
    \/ now <= LastArrival /\ \E s \in Shades : TimedQueueBurst(s, "u")
    \/ now <= LastArrival /\ \E timeout_seconds \in ClockSceneTimeouts :
          TimedQueueScene(ClockScene, MaxRetryCount, timeout_seconds)
    \/ \E t \in Created : tasks[t].kind = "burst" /\ timeout_protected_sequence(t)
    \/ \E t \in Created : BurstTimeoutError(t)
    \/ \E t \in Created : timeout_protected_scene(t)
    \/ \E t \in Created : SceneTimeoutError(t)
    \/ \E t \in Created : TimedCancelled(t)
    \/ Tick
    \/ SweepPass

SpecClock == InitClock /\ [][NextClock]_vars

\* A caller waits for a burst with wait_for_task.
NextWait ==
    \/ now <= LastArrival /\ TimedQueueBurst(1, "u")
    \/ \E t \in Created : timeout_protected_sequence(t)
    \/ \E t \in Created : BurstTimeoutError(t)
    \/ \E t \in Created : TimedCancelled(t)
    \/ Tick
    \/ \E t \in 1..MaxTasks, timeout \in 1..MaxWaitTimeout : wait_for_task(t, timeout)
    \/ WaitTimeout
    \/ WaitReturn

SpecWait == InitClock /\ [][NextWait]_vars

(* ------------------------- vocabulary of the claims ------------------- *)
IsBurst(t) == tasks[t].kind = "burst"
IsSceneTask(t) == tasks[t].kind \in {"scene", "retries"}
Done(t) == tasks[t].pc = "done"
Signalled(t) == tasks[t].cancelReq
Owner(s) == active_shade_tasks[s]
Owned(s) == s \in DOMAIN active_shade_tasks

\* The step is a return of enqueue_shade(s, _): a burst task for s is created.
EnqueueShadeStep(s) ==
    /\ task_counter' = task_counter + 1
    /\ tasks'[task_counter'].kind = "burst"
    /\ tasks'[task_counter'].shade_id = s

\* The step is a return of queue_scene_execution.
QueueSceneStep ==
    /\ task_counter' = task_counter + 1
    /\ tasks'[task_counter'].kind = "scene"

(* -------------------------------- C1 ---------------------------------- *)
\* C1: when enqueue_shade(S, A) returns, the shade-to-task map maps S to the
\* newly created task, that task is in the active-tasks map, and the task
\* that owned S when the call began (if any) has been signalled cancellation.
C1_Handover ==
    [][\A s \in Shades :
          EnqueueShadeStep(s) =>
             /\ s \in DOMAIN active_shade_tasks'
             /\ active_shade_tasks'[s] = task_counter'
             /\ task_counter' \in active_tasks'
             /\ tasks'[task_counter'].pc = "unstarted"
             /\ (Owned(s) => tasks'[Owner(s)].cancelReq)]_vars

\* A burst that owned shade s was displaced by a fresh burst that now owns s.
C1_Witness ==
    \E s \in Shades : \E a, b \in Created :
        /\ a < b /\ IsBurst(a) /\ IsBurst(b)
        /\ tasks[a].shade_id = s /\ tasks[b].shade_id = s
        /\ Signalled(a) /\ ~Done(a) /\ a \in cancelled_tasks
        /\ Owned(s) /\ Owner(s) = b /\ b \in active_tasks
        /\ tasks[b].pc = "unstarted" /\ ~Signalled(b)

(* -------------------------------- C2 ---------------------------------- *)
LiveBursts(s) ==
    {t \in Created : IsBurst(t) /\ tasks[t].shade_id = s /\ ~Signalled(t) /\ ~Done(t)}

\* C2: in every reachable state, every shade has at most one single-shade
\* burst task that is neither signalled cancellation nor finished.
C2_NoAccumulation == \A s \in Shades : Cardinality(LiveBursts(s)) <= 1

\* Two unfinished bursts target the same shade; only the later one is live.
C2_Witness ==
    \E s \in Shades : \E a, b \in Created :
        /\ a < b /\ IsBurst(a) /\ IsBurst(b)
        /\ tasks[a].shade_id = s /\ tasks[b].shade_id = s
        /\ ~Done(a) /\ Signalled(a) /\ tasks[a].pc = "sleep"
        /\ LiveBursts(s) = {b}

(* -------------------------------- C3 ---------------------------------- *)
\* Burst b was enqueued for a's shade after a.
Displaces(b, a) ==
    /\ a < b /\ IsBurst(a) /\ IsBurst(b) /\ tasks[a].shade_id = tasks[b].shade_id

\* C3: once a later enqueue_shade for the same shade has returned, the
\* earlier burst is signalled cancellation (or already finished) and makes
\* no further transmission: it transmits at most what it had transmitted
\* before the later command was enqueued.
C3_OrderingPerShade ==
    [][\A a \in Created :
          (\E b \in Created : Displaces(b, a)) =>
             /\ Signalled(a) \/ Done(a)
             /\ tasks'[a].sent = tasks[a].sent]_vars

\* a transmitted once, was displaced by b, and b has transmitted since.
C3_Witness ==
    \E a, b \in Created :
        /\ Displaces(b, a)
        /\ Len(tasks[a].sent) = 1 /\ Done(a) /\ tasks[a].exit = "cancelled"
        /\ Len(tasks[b].sent) >= 2

(* -------------------------------- C4 ---------------------------------- *)
\* C4: an enqueue_shade(S, A) issued while a running scene task is
\* registered as owner of S does not cancel the scene task.
C4_SceneSurvivesShadeCommand ==
    [][\A s \in Shades :
          (EnqueueShadeStep(s) /\ Owned(s) /\ tasks[Owner(s)].kind = "scene"
             /\ ~Done(Owner(s)) /\ ~Signalled(Owner(s)))
          => ~tasks'[Owner(s)].cancelReq]_vars

(* -------------------------------- C5 ---------------------------------- *)
\* C5: when queue_scene_execution returns, every scene task queued earlier
\* that has not finished has been signalled cancellation, in whatever phase
\* it is.
C5_LatestSceneWins ==
    [][QueueSceneStep =>
          \A t \in Created :
              (tasks[t].kind = "scene" /\ ~Done(t)) => tasks'[t].cancelReq]_vars

(* -------------------------------- C6 ---------------------------------- *)
\* C6: a single-shade burst task that has finished, by any exit path, is not
\* a key of the active-tasks map and no shade maps to it.
C6_BurstReleased ==
    \A t \in Created :
        (IsBurst(t) /\ Done(t)) =>
            /\ t \notin active_tasks
            /\ t \notin Values(active_shade_tasks)

(* -------------------------------- C7 ---------------------------------- *)
\* C7: a scene background task (queue_scene_execution or queue_scene_retries)
\* that has finished is absent from the active-tasks map and owns no shade.
C7_SceneReleased ==
    \A t \in Created :
        (IsSceneTask(t) /\ Done(t)) =>
            /\ t \notin active_tasks
            /\ t \notin Values(active_shade_tasks)

(* -------------------------------- C8 ---------------------------------- *)
\* C8: immediately after enqueue_shade(S, B) returns having displaced the
\* burst of an earlier enqueue_shade(S, A), get_task_stats() does not list
\* A's task among the active task ids, lists B's, and the cancelled-task
\* count has increased.
C8_DisplacedLeavesActiveSet ==
    [][\A s \in Shades :
          (EnqueueShadeStep(s) /\ Owned(s) /\ IsBurst(Owner(s))
             /\ Owner(s) \in active_tasks)
          => /\ Owner(s) \notin get_task_stats'.active_task_ids
             /\ task_counter' \in get_task_stats'.active_task_ids
             /\ get_task_stats'.total_cancelled_tasks
                  > get_task_stats.total_cancelled_tasks]_vars

(* -------------------------------- C9 ---------------------------------- *)
\* C9: enqueue_shade(S, A) does not cancel (or otherwise touch) the
\* single-shade task of any other shade and leaves the shade-to-task entry
\* of every other shade unchanged.
C9_MultiShadeIsolation ==
    [][\A s \in Shades :
          EnqueueShadeStep(s) =>
             /\ \A o \in Shades \ {s} :
                   /\ (o \in DOMAIN active_shade_tasks') = Owned(o)
                   /\ Owned(o) => active_shade_tasks'[o] = Owner(o)
             /\ \A t \in Created :
                   (IsBurst(t) /\ tasks[t].shade_id # s) => tasks'[t] = tasks[t]]_vars

\* A fresh burst for one shade next to a live, owning burst of another shade.
C9_Witness ==
    \E a, b \in Created :
        /\ IsBurst(a) /\ IsBurst(b) /\ a < b
        /\ tasks[a].shade_id # tasks[b].shade_id
        /\ tasks[b].pc = "unstarted" /\ b = task_counter
        /\ ~Signalled(a) /\ tasks[a].pc = "sleep"
        /\ Owned(tasks[a].shade_id) /\ Owner(tasks[a].shade_id) = a
        /\ Owned(tasks[b].shade_id) /\ Owner(tasks[b].shade_id) = b

(* -------------------------------- C10 --------------------------------- *)
\* The k-th attempt of burst t: its own shade and action, after the given delay.
Attempt(t, after) ==
    [shade_id |-> tasks[t].shade_id, action |-> tasks[t].action, after |-> after]

BurstShape(t) ==
    LET schedule == <<0, 650, 1500>> IN
    /\ Len(tasks[t].sent) <= 3
    /\ \A k \in 1..Len(tasks[t].sent) : tasks[t].sent[k] = Attempt(t, schedule[k])
    /\ (Len(tasks[t].sent) = 3) = (Done(t) /\ tasks[t].exit = "completed")
    /\ (Done(t) /\ ~Signalled(t) /\ tasks[t].exit # "timeout") => Len(tasks[t].sent) = 3

RECURSIVE Offset(_, _)
Offset(sent, k) == IF k = 0 THEN 0 ELSE Offset(sent, k - 1) + sent[k].after

\* C11: with zero-duration link writes the transmissions of an un-cancelled
\* burst occur 0 ms, 650 ms and 1500 ms after task start, and the task has
\* terminated and released its shade by 2000 ms after start.
C11_BurstTiming ==
    \A t \in Created :
        IsBurst(t) =>
            /\ \A k \in 1..Len(tasks[t].sent) :
                  k <= 3 => Offset(tasks[t].sent, k) = <<0, 650, 1500>>[k]
            /\ (Done(t) /\ tasks[t].exit = "completed")
                  => /\ Offset(tasks[t].sent, Len(tasks[t].sent)) <= 2000
                     /\ t \notin active_tasks
                     /\ t \notin Values(active_shade_tasks)

(* -------------------------------- C12 --------------------------------- *)
Failures == {"no_connection", "lock_timeout", "write_timeout", "write_error",
             "not_found", "not_configured", "invalid_command"}

\* C12: a failed transmission attempt of a burst is only logged: the burst
\* keeps its schedule (it sleeps towards the next attempt, or has made all
\* three), and a burst that was not cancelled ends by normal completion,
\* after three attempts, with the maps released.
C12_BurstSurvivesLinkFailures ==
    \A t \in Created :
        IsBurst(t) =>
            /\ Len(ResultsOf(t)) = Len(tasks[t].sent)
            /\ tasks[t].exit \in {"none", "completed", "cancelled"}
            /\ (~Done(t) /\ ~Signalled(t) /\ ResultsOf(t) # <<>>)
                  => tasks[t].pc = "sleep" /\ Len(tasks[t].sent) < 3
            /\ (Done(t) /\ ~Signalled(t))
                  => /\ tasks[t].exit = "completed"
                     /\ Len(tasks[t].sent) = 3
                     /\ t \notin active_tasks
                     /\ t \notin Values(active_shade_tasks)

\* A burst completed although each of its three attempts failed: no device
\* bound, then the lock held by the other thread, then a write error.
C12_Witness ==
    \E t \in Created :
        /\ IsBurst(t) /\ Done(t) /\ tasks[t].exit = "completed" /\ ~Signalled(t)
        /\ ResultsOf(t) = <<"no_connection", "lock_timeout", "write_error">>
        /\ t \notin active_tasks /\ t \notin Values(active_shade_tasks)

C14_ValidationBeforeEnqueue ==
    [][\A s \in RequestShades :
          EnqueueShadeStep(s) =>
             PrepareCommand(s, tasks'[task_counter'].action).ok]_vars

(* -------------------------------- C15 --------------------------------- *)
\* C15: no serial write is performed for an action outside {u, d, s}, for a
\* shade id the directory does not have, or for an action whose payload is
\* missing or 'FF FF'; every command line written ends in ",<action_code>"
\* with action_code in {0, 1, 2}.  (The only other writes are INFO probes.)
C15_NoWriteWithoutFrame ==
    /\ \A w \in in_flight :
          w.line # INFO =>
             /\ call.op = "send" /\ call.pc = "writing" /\ w.line = call.line
             /\ call.action \in {"u", "d", "s"}
             /\ call.shade_id \in DOMAIN ShadeDb
             /\ SelectCommand(ShadeDb[call.shade_id], call.action) \notin {<<>>, FF_FF}
             /\ Len(w.line) >= 2
             /\ w.line[Len(w.line) - 1] = ","
             /\ w.line[Len(w.line)] \in {"0", "1", "2"}
    /\ (call.op = "send" /\ call.result \in {"invalid_command", "not_found", "not_configured"})
          => call.pc = "returned" /\ call.line = <<>> /\ call.port = 0

\* A stop command for the shade without stop payload came back "not
\* configured" with the link bound and free, and nothing was written.
C15_Witness ==
    /\ call.op = "send" /\ call.pc = "returned" /\ call.result = "not_configured"
    /\ call.action = "s" /\ call.shade_id \in DOMAIN ShadeDb
    /\ serial_connection # 0 /\ connection_lock = "free" /\ in_flight = {}

(* -------------------------------- C16 --------------------------------- *)
\* Reading a line back: the comma-separated fields, the value of a field of
\* upper-case hex digits or of decimal digits (-1 when it is not one).
RECURSIVE Fields(_)
Fields(line) ==
    IF \A k \in 1..Len(line) : line[k] # ","
    THEN <<line>>
    ELSE LET k == CHOOSE i \in 1..Len(line) :
                     line[i] = "," /\ \A j \in 1..(i - 1) : line[j] # ","
         IN <<SubSeq(line, 1, k - 1)>> \o Fields(SubSeq(line, k + 1, Len(line)))

DigitValue(c, base) ==
    IF \E d \in 1..base : HexDigits[d] = c
    THEN (CHOOSE d \in 1..base : HexDigits[d] = c) - 1
    ELSE -1

RECURSIVE NumberValue(_, _)
NumberValue(digits, base) ==
    IF digits = <<>> THEN -1
    ELSE LET last == DigitValue(digits[Len(digits)], base) IN
         IF last < 0 THEN -1
         ELSE IF Len(digits) = 1 THEN last
         ELSE LET rest == NumberValue(SubSeq(digits, 1, Len(digits) - 1), base) IN
              IF rest < 0 THEN -1 ELSE rest * base + last

\* field is text with its spaces left out, and nothing else changed.
RECURSIVE IsStripOf(_, _)
IsStripOf(field, text) ==
    IF text = <<>> THEN field = <<>>
    ELSE IF Head(text) = " " THEN IsStripOf(field, Tail(text))
    ELSE field # <<>> /\ Head(field) = Head(text) /\ IsStripOf(Tail(field), Tail(text))

ExpectedFrame(rec, cmd_type, line) ==
    LET f == Fields(line) IN
    /\ Len(f) = 8
    /\ Len(f[1]) = 5
    /\ SubSeq(f[1], 1, 3) = <<"T", "X", ":">>
    /\ NumberValue(SubSeq(f[1], 4, 5), 16) = rec.remote_id
    /\ IsStripOf(f[2], rec.header_bytes)
    /\ IsStripOf(f[3], rec.identifier_bytes)
    /\ IsStripOf(f[4], SelectCommand(rec, cmd_type))
    /\ f[5] = (IF rec.remote_type = "AC123-06D" THEN <<"0">> ELSE <<"1">>)
    /\ NumberValue(f[6], 10) = rec.common_byte
    /\ f[7] = (IF rec.channel = "CC" THEN <<"1">> ELSE <<"0">>)
    /\ f[8] = (IF cmd_type = "u" THEN <<"0">> ELSE IF cmd_type = "d" THEN <<"1">> ELSE <<"2">>)

\* The two encoding seeds: the records (as far as the seed fixes them) and
\* the lines they must give.
IsSeedRecord(rec, remote_type, channel) ==
    /\ rec.remote_id = 254 /\ rec.remote_type = remote_type /\ rec.channel = channel
    /\ rec.header_bytes = <<"5", "C", " ", "2", "D", " ", "0", "D", " ", "3", "9">>
    /\ rec.identifier_bytes = <<"F", "E", " ", "F", "F">>
    /\ rec.common_byte = 80
SeedUpLine == <<"T", "X", ":", "F", "E", ",", "5", "C", "2", "D", "0", "D", "3", "9", ",", "F", "E", "F", "F", ",", "F", "4", "6", "9", ",", "0", ",", "8", "0", ",", "0", ",", "0">>
SeedCcDownLine == <<"T", "X", ":", "F", "E", ",", "5", "C", "2", "D", "0", "D", "3", "9", ",", "F", "E", "F", "F", ",", "A", "A", "B", "B", ",", "1", ",", "8", "0", ",", "1", ",", "1">>

\* C16: for every shade record and configured action the encoded line is
\* TX:<remote id, two upper-case hex digits>,<header>,<id bytes>,<payload>,
\* <family_flag>,<common>,<cc_flag>,<action_code>, spaces removed from the
\* byte strings, family_flag 0 iff the family is AC123-06D, cc_flag 1 iff the
\* channel tag is exactly CC, action_code 0/1/2 for u/d/s; encoding the same
\* inputs again gives the same line.
C16_FrameEncoding ==
    /\ [](/\ arduino_command.ok
             => /\ SelectCommand(shade_data, command) \notin {<<>>, FF_FF}
                /\ ExpectedFrame(shade_data, command, arduino_command.line)
          /\ arduino_command.why = "not_configured"
             => SelectCommand(shade_data, command) \in {<<>>, FF_FF}
          /\ (arduino_command.ok /\ command = "u" /\ shade_data.up_command = <<"F", "4", " ", "6", "9">>
                /\ IsSeedRecord(shade_data, "AC123-06D", "A1"))
             => arduino_command.line = SeedUpLine
          /\ (arduino_command.ok /\ command = "d" /\ shade_data.down_command = <<"A", "A", " ", "B", "B">>
                /\ IsSeedRecord(shade_data, "AC123-16D", "CC"))
             => arduino_command.line = SeedCcDownLine)
    /\ [][(shade_data' = shade_data /\ command' = command /\ arduino_command.ok)
             => arduino_command' = arduino_command]_vars

\* The CC / 16-channel seed record was encoded for "down".
C16_Witness ==
    /\ arduino_command.ok /\ command = "d"
    /\ IsSeedRecord(shade_data, "AC123-16D", "CC")
    /\ shade_data.down_command = <<"A", "A", " ", "B", "B">>
    /\ arduino_command.line = SeedCcDownLine

(* -------------------------------- C17 --------------------------------- *)
\* C17: at most one serial write is in flight at any moment, and whoever
\* has a write in flight (a command line, an INFO health probe, a probe of
\* the port scan of reconnect / auto-detection) holds the link lock.
C17_ExclusiveLink ==
    /\ Cardinality(in_flight) <= 1
    /\ \A w \in in_flight : w.by \in Threads /\ connection_lock = w.by
    /\ call.pc \in {"locked", "writing", "release", "release_then_establish",
                    "scan", "scan_write", "health", "health_write"}
          => connection_lock = "loop"
    /\ health \in {"locked", "write", "release"} => connection_lock = "health"

\* A command line is in flight while the health-check thread waits for the lock.
C17_Witness ==
    /\ \E w \in in_flight : w.by = "loop" /\ w.line # INFO /\ w.port = serial_connection
    /\ health = "acquire"
    /\ connection_lock = "loop"

(* -------------------------------- C18 --------------------------------- *)
\* send_command_fast is waiting for the lock.
SendWaiting == call.op = "send" /\ call.pc = "acquire"

\* C18: when the link lock stays held by another holder for the whole 1 s
\* wait, send_command_fast returns the lock-timeout failure without writing
\* and without having held the lock; the wait always ends (the call either
\* gets the lock or gives up).
C18_BoundedLockWait ==
    /\ [](SendWaiting => ENABLED (SendAcquire \/ SendLockTimeout))
    /\ []((call.op = "send" /\ call.result = "lock_timeout")
             => call.pc = "returned" /\ call.port = 0 /\ connection_lock # "loop")
    /\ [][(SendWaiting /\ connection_lock # "free" /\ call' # call)
             => /\ call'.pc = "returned" /\ call'.result = "lock_timeout"
                /\ in_flight' = in_flight
                /\ connection_lock' = connection_lock
                /\ Binding' = Binding]_vars

\* The call gave up while the health-check thread held the lock with its
\* probe in flight.
C18_Witness ==
    /\ call.op = "send" /\ call.pc = "returned" /\ call.result = "lock_timeout"
    /\ connection_lock = "health"
    /\ \E w \in in_flight : w.by = "health"

(* -------------------------------- C19 --------------------------------- *)
\* The failures send_command_fast reports.
LinkFailures == {"no_connection", "lock_timeout", "write_timeout", "write_error"}

\* A send that returned a link failure left the binding as it found it,
\* and no step of a send changes the binding.
FailedSendKeepsBinding ==
    /\ [](call.op = "send" /\ call.pc = "returned" /\ call.result \in LinkFailures
             => Binding = call.pre)
    /\ [][call.op = "send" /\ call'.op = "send" => Binding' = Binding]_vars

\* C19 as stated: after send_command_fast returns any failure the binding
\* (cached connection and port) is what it was before the call, and only
\* close() or reconnect() change the binding.
C19_OnlyCloseOrReconnectRebind ==
    /\ FailedSendKeepsBinding
    /\ [][Binding' # Binding => call.op \in {"close", "reconnect"}]_vars

\* C19 amended: after send_command_fast returns any failure the binding is
\* what it was before the call; the binding is changed only by close(), by
\* reconnect() and by the connection set-up of get_connection().
C19_FailedSendKeepsBinding ==
    /\ FailedSendKeepsBinding
    /\ [][Binding' # Binding => call.op \in {"close", "reconnect", "get_connection"}]_vars

\* A write on a bound link failed and the call has returned.
C19_Witness ==
    /\ call.op = "send" /\ call.pc = "returned"
    /\ call.result \in {"write_timeout", "write_error"}
    /\ call.port # 0
    /\ serial_connection = call.port

(* -------------------------------- C20 --------------------------------- *)
\* C20: a shade command to be transmitted while no device is bound makes
\* the link owner run auto-detection for that command: with a device
\* answering on some port the call does not end at its first step with the
\* no-connection failure, it goes on to bind the device and write; a command issued while a device
\* is bound is written to the cached binding.
C20_AutoDetectOnFirstNeed ==
    /\ [][(/\ LoopIdle
           /\ serial_connection = 0
           /\ devices # {}
           /\ call'.op = "send"
           /\ PrepareCommand(call'.shade_id, call'.action).ok)
             => call'.pc # "returned" /\ call'.result # "no_connection"]_vars
    /\ [](call.op = "send" /\ call.pc = "writing" => call.port = call.pre[1])

(* -------------------------------- C27 --------------------------------- *)
\* The step that delivers the CancelledError to task t.
Unwind(t) ==
    (BurstCancelled(t) \/ SceneCancelled(t) \/ RetriesCancelled(t)) /\ LinkUntouched

\* C27: a task that has been signalled cancellation (by cancel_shade,
\* cancel_task, cancel_all, a displacing enqueue, a later scene or the
\* sweep) transmits nothing more; the only thing it still does is end as
\* cancelled, and that step is always possible (no handler in the task
\* catches the cancellation and carries on).
C27_CancellationStopsTransmission ==
    /\ [](\A t \in Created : Signalled(t) /\ ~Done(t) => ENABLED Unwind(t))
    /\ [][\A t \in Created :
             Signalled(t) /\ ~Done(t) =>
                /\ tasks'[t].sent = tasks[t].sent
                /\ tasks'[t] # tasks[t] =>
                      tasks'[t].pc = "done" /\ tasks'[t].exit = "cancelled"]_vars

\* A burst and a scene were each stopped by a cancellation part-way through
\* their schedule.
C27_Witness ==
    /\ \E t \in Created :
          /\ tasks[t].kind = "burst" /\ tasks[t].exit = "cancelled"
          /\ Len(tasks[t].sent) \in 1..Len(retry_delays_ms)
    /\ \E t \in Created :
          /\ tasks[t].kind = "scene" /\ tasks[t].exit = "cancelled"
          /\ Len(tasks[t].sent) \in 1..(Len(tasks[t].cmds) * tasks[t].retry_count - 1)

(* -------------------------------- C28 --------------------------------- *)
\* What cancel_shade(s) returns and leaves behind when called in the
\* current state.
CancelShadeResult(s) == cancel_shade_retries(State, s)

\* The task that shade s maps to is in the active-tasks map.
MappedToActive(s) == Owned(s) /\ Owner(s) \in active_tasks

\* C28: in every reachable state and for every shade S, cancel_shade(S)
\* returns true exactly when S is mapped to a task of the active-tasks map,
\* and that task is then signalled cancellation and recorded in the
\* cancelled-task record; it returns false otherwise; afterwards S has no
\* entry in the shade-to-task map and no other shade's entry has changed.
C28_CancelShadeResult ==
    \A s \in Shades :
        LET r == CancelShadeResult(s) IN
        /\ r.ret = MappedToActive(s)
        /\ r.ret => /\ r.tasks[Owner(s)].cancelReq
                    /\ Owner(s) \in r.cancelled_tasks
        /\ s \notin DOMAIN r.active_shade_tasks
        /\ \A x \in Shades \ {s} :
              /\ (x \in DOMAIN r.active_shade_tasks) = Owned(x)
              /\ Owned(x) => r.active_shade_tasks[x] = Owner(x)

\* cancel_shade has returned true for one shade (its task is signalled,
\* recorded, still in the active-tasks map, and the shade is unmapped)
\* while the other shade kept a stale entry, for which it returns false.
C28_Witness ==
    \E s \in Shades, x \in Shades, t \in cancelled_tasks :
        /\ s # x
        /\ tasks[t].kind = "burst" /\ tasks[t].shade_id = s
        /\ tasks[t].cancelReq /\ ~Done(t) /\ t \in active_tasks
        /\ ~Owned(s)
        /\ Owned(x) /\ Owner(x) \notin active_tasks

(* -------------------------------- C29 --------------------------------- *)
\* Counter values for which the rendered ids are compared.
MaxIdCounter == 12
IdCounters == 1..MaxIdCounter

\* Task t is the same task after the step as before it.
SameTask(t) ==
    /\ tasks'[t].kind = tasks[t].kind
    /\ tasks'[t].shade_id = tasks[t].shade_id
    /\ tasks'[t].cmds = tasks[t].cmds
    /\ tasks[t].pc # "unstarted" => tasks'[t].pc # "unstarted"

\* C29: the ids of created tasks are pairwise distinct and their counter
\* grows by one with each creation: a step that creates a task gives it the
\* next counter value, which no earlier task has, every earlier task keeps
\* its id, and ids rendered from different counters differ whatever the
\* epochs.
C29_UniqueTaskIds ==
    /\ [](\A c1 \in IdCounters, c2 \in IdCounters, m1 \in Epochs, m2 \in Epochs :
             generate_task_id(c1, m1) = generate_task_id(c2, m2) => c1 = c2)
    /\ [](DOMAIN tasks = 1..task_counter)
    /\ [][/\ task_counter' \in {task_counter, task_counter + 1}
          /\ (task_counter' = task_counter + 1) = (DOMAIN tasks' # DOMAIN tasks)
          /\ task_counter' = task_counter + 1 =>
                /\ DOMAIN tasks' = DOMAIN tasks \cup {task_counter'}
                /\ tasks'[task_counter'].pc = "unstarted"
          /\ \A t \in DOMAIN tasks : SameTask(t)]_vars

\* One id was given by queue_scene_retries or queue_scene_execution and
\* the next one by the shade enqueue.
C29_Witness ==
    /\ task_counter = 2
    /\ tasks[1].kind \in {"scene", "retries"}
    /\ tasks[2].kind = "burst"

(* -------------------------------- C30 --------------------------------- *)
\* Scene task t sleeps the post-step delay of its step i.
InPostStepDelay(t) ==
    /\ tasks[t].kind = "scene" /\ tasks[t].pc = "sleep"
    /\ tasks[t].phase = "step_delay"

\* C30: a scene step registers the scene task as owner of its shade, makes
\* one transmission, unregisters, and only then sleeps the post-step delay:
\* while a scene task sleeps a post-step delay its last transmission is the
\* one of that step and it is not registered as owner of the step's shade.
C30_SceneStepProtocol ==
    \A t \in Created :
        InPostStepDelay(t) =>
            LET cmd == tasks[t].cmds[tasks[t].i]
                last == tasks[t].sent[Len(tasks[t].sent)]
            IN /\ tasks[t].i < Len(tasks[t].cmds)
               /\ last.shade_id = cmd.shade_id /\ last.action = cmd.action
               /\ ~(Owned(cmd.shade_id) /\ Owner(cmd.shade_id) = t)

(* -------------------------------- C21 --------------------------------- *)
\* The (shade, action) pairs of a sequence of steps or of transmissions.
Plan(steps) ==
    [k \in 1..Len(steps) |-> [shade_id |-> steps[k].shade_id, action |-> steps[k].action]]

RECURSIVE Passes(_, _)
Passes(plan, n) == IF n = 0 THEN <<>> ELSE plan \o Passes(plan, n - 1)

IsPrefix(a, b) == Len(a) <= Len(b) /\ a = SubSeq(b, 1, Len(a))

\* The request was executed (not rejected, not a dry run) and has been answered.
Executed == scene_request.pc = "returned" /\ scene_request.status = "ok"
               /\ ~scene_request.dry_run

\* Everything transmitted for the scene of the last request: the first
\* cycle by the handler, the further cycles by its background task.
SceneTransmissions ==
    Plan(scene_request.sent) \o
       (IF scene_request.retry_task = 0 THEN <<>>
        ELSE Plan(tasks[scene_request.retry_task].sent))

Applied == scene_request.commands # <<>>

\* C22: the timeout applied to a scene execution lies in 1..300 seconds and
\* its retry-cycle count in 0..5, overrides included; no background task is
\* queued with a retry-cycle count outside 0..5.
C22_SceneParameterBounds ==
    /\ Applied => /\ scene_request.retry_count \in 0..5
                  /\ scene_request.timeout_seconds \in 1..300
    /\ \A t \in Created : tasks[t].kind = "retries" => tasks[t].retry_count \in 0..5

(* -------------------------------- C23 --------------------------------- *)
\* Time from the start of task t to its latest transmission.
RunningTime(t) ==
    IF tasks[t].sent = <<>> THEN 0 ELSE Offset(tasks[t].sent, Len(tasks[t].sent))

\* C23: the background task of a scene (retry-cycle count and timeout
\* within their ranges) is over within the scene's timeout_seconds of its
\* start: it never transmits later than timeout_seconds after it started.
C23_SceneTaskTimeBounded ==
    (/\ scene_request.retry_task # 0
     /\ scene_request.retry_count \in 0..5
     /\ scene_request.timeout_seconds \in 1..300)
        => RunningTime(scene_request.retry_task) <= scene_request.timeout_seconds * 1000

(* -------------------------------- C24 --------------------------------- *)
\* C24: the scene execution log never holds more than 100 entries; each
\* append puts the new entry last and keeps, in their order, the newest
\* entries of the log before it, dropping the oldest one when the log was
\* full: the log is always the latest appended entries in append order, and
\* its last entry is the one of the execution answered last.
C24_BoundedSceneLog ==
    /\ [](Executed =>
             /\ scene_execution_logs # <<>>
             /\ LastStamp(scene_execution_logs) = scene_request.timestamp
             /\ scene_execution_logs[Len(scene_execution_logs)].scene_name
                   = scene_request.scene_name)
    /\ [](/\ Len(scene_execution_logs) <= MaxLogEntries
          /\ \A k \in 1..Len(scene_execution_logs) :
                scene_execution_logs[k].execution_time =
                   LastStamp(scene_execution_logs) - (Len(scene_execution_logs) - k))
    /\ [][scene_execution_logs' # scene_execution_logs =>
             LET old == scene_execution_logs
                 new == scene_execution_logs'
                 kept == Len(new) - 1
             IN /\ Len(new) = (IF Len(old) < MaxLogEntries THEN Len(old) + 1 ELSE MaxLogEntries)
                /\ new[Len(new)].execution_time = LastStamp(old) + 1
                /\ SubSeq(new, 1, kept) = SubSeq(old, Len(old) - kept + 1, Len(old))]_vars

\* The log is full and its oldest entries have been dropped.
C24_Witness ==
    /\ Len(scene_execution_logs) = MaxLogEntries
    /\ scene_execution_logs[1].execution_time > 1

(* -------------------------------- C25 --------------------------------- *)
\* The step answers a request that is not executed: unknown scene, scene
\* file that does not load, or dry run.
AnsweredWithoutExecuting ==
    /\ scene_request' # scene_request
    /\ scene_request'.pc = "returned"
    /\ \/ scene_request'.status \in {"SceneNotFound", "SceneExecutionError"}
       \/ scene_request'.dry_run /\ scene_request'.status = "ok"

\* C25: execute_scene for a missing scene, for a malformed scene, or with
\* dry_run set transmits nothing, queues no background task and appends no
\* execution-log entry; the dry run answers with one planned entry per scene
\* step, in step order; a missing scene is answered SceneNotFound and a
\* malformed one with an error.
C25_NotExecutedRequests ==
    /\ [][AnsweredWithoutExecuting =>
             /\ UNCHANGED <<schedVars, scene_execution_logs>>
             /\ scene_request'.sent = <<>>
             /\ scene_request'.retry_task = 0
             /\ scene_request'.status = "ok" =>
                   scene_request'.results = Plan(SceneFiles[scene_request'.scene_name].commands)
             /\ scene_request'.status # "ok" => scene_request'.results = <<>>]_vars
    /\ [](scene_request.pc = "returned" /\ scene_request.status # "RequestValidationError" =>
             /\ (scene_request.scene_name \notin DOMAIN SceneFiles)
                   = (scene_request.status = "SceneNotFound")
             /\ (load_scene(scene_request.scene_name).raised = "ValueError")
                   = (scene_request.status = "SceneExecutionError")
             /\ scene_request.dry_run => scene_request.sent = <<>>)

\* A dry run of the three-step scene was answered with its three planned
\* steps while the log already held an entry and a background task existed.
C25_Witness ==
    /\ scene_request.pc = "returned" /\ scene_request.dry_run
    /\ scene_request.status = "ok"
    /\ Len(scene_request.results) = 3
    /\ Len(scene_execution_logs) = 1
    /\ task_counter = 1

(* -------------------------------- C26 --------------------------------- *)
\* C26: a scene execution request is answered right after its background
\* task is queued: when an executed request returns, none of the scene's
\* commands has been transmitted on its behalf and the handler has slept no
\* step delay.
C26_SceneEnqueueNonBlocking ==
    Executed => /\ scene_request.sent = <<>>
                /\ scene_request.elapsed_ms = 0

(* -------------------------------- C31 --------------------------------- *)
\* Position k of a scene task's transmissions opens a cycle after the first.
OpensLaterCycle(t, k) ==
    k > 1 /\ (k - 1) % Len(tasks[t].cmds) = 0

\* C31: every background scene task (the tasks of queue_scene_execution
\* and the retry tasks of queue_scene_retries) transmits its cycles one
\* after the other, each in step order, and the first transmission of every
\* cycle after the first comes 2 s after the end of the cycle before it.
C31_SceneOrderAndCycleGap ==
    \A t \in Created :
        tasks[t].kind \in {"scene", "retries"} =>
            /\ IsPrefix(Plan(tasks[t].sent),
                        Passes(Plan(tasks[t].cmds), tasks[t].retry_count))
            /\ \A k \in 1..Len(tasks[t].sent) :
                  OpensLaterCycle(t, k) => tasks[t].sent[k].after = 2000

(* -------------------------------- C38 --------------------------------- *)
\* Task t is a burst that has not been signalled cancellation and is the
\* registered owner of its shade.
LiveOwnerBurst(t) ==
    /\ IsBurst(t) /\ ~Done(t) /\ ~Signalled(t)
    /\ Owned(tasks[t].shade_id) /\ Owner(tasks[t].shade_id) = t

\* C38: a return of queue_scene_execution leaves the shade-to-task map as
\* it was, newly signals cancellation to scene tasks only, and signals no
\* burst that was un-cancelled and the registered owner of its shade.
C38_QueueSceneSparesBursts ==
    [][QueueSceneStep =>
          /\ active_shade_tasks' = active_shade_tasks
          /\ \A t \in Created :
                /\ tasks'[t].cancelReq /\ ~tasks[t].cancelReq => IsSceneTask(t)
                /\ LiveOwnerBurst(t) => /\ ~tasks'[t].cancelReq
                                        /\ tasks'[t] = tasks[t]
                                        /\ t \in active_tasks']_vars

\* A scene has just been queued while a burst that owns its shade sleeps
\* between two transmissions, un-cancelled.
C38_Witness ==
    /\ task_counter = 2
    /\ tasks[2].kind = "scene" /\ tasks[2].pc = "unstarted"
    /\ tasks[1].kind = "burst" /\ tasks[1].pc = "sleep" /\ ~tasks[1].cancelReq
    /\ Owned(tasks[1].shade_id) /\ Owner(tasks[1].shade_id) = 1
    /\ active_tasks = {1, 2}

(* -------------------------------- C36 --------------------------------- *)
\* C36: every task id stored as a value of the shade-to-task map is a key
\* of the active-tasks map.
C36_MapsReferentialIntegrity ==
    \A s \in DOMAIN active_shade_tasks : active_shade_tasks[s] \in active_tasks

(* -------------------------------- C34 --------------------------------- *)
\* The step begins a serial write of the event-loop thread.
LoopWriteBegins == \E w \in in_flight' \ in_flight : w.by = "loop"

\* The event-loop thread holds the lock in _establish_connection and the
\* port scan of this holding has written its INFO probe to the port that
\* answered: the call is about to test the connection it has just opened.
WroteInThisHolding ==
    /\ connection_lock = "loop"
    /\ call.op \in {"reconnect", "get_connection"}
    /\ call.kind # "cached"
    /\ call.pc = "health"

\* C34: during one holding of the link lock the event-loop thread begins
\* at most one serial write: no write begins in a holding that has already
\* written.
C34_ShortCriticalSections ==
    [][LoopWriteBegins => ~WroteInThisHolding]_vars

(* -------------------------------- C39 --------------------------------- *)
\* The event-loop thread is at an acquisition of the link lock.
LoopAcquiring == call.pc \in {"acquire", "gc_acquire", "est_acquire", "close_acquire"}

\* The link call has returned by this path.
Returned(op, result) ==
    call.op = op /\ call.pc = "returned" /\ call.result = result

\* C39: whenever send_command_fast, get_connection, reconnect or close has
\* returned, by whichever path, the event-loop thread does not hold the link
\* lock; the thread never attempts to acquire the lock while it holds it;
\* and every step that ends a call leaves the lock not held by the thread.
C39_LockReleasedNeverReacquired ==
    /\ [](call.pc \in {"idle", "returned"} => connection_lock # "loop")
    /\ [](LoopAcquiring => connection_lock # "loop")
    /\ [][call.pc # "returned" /\ call'.pc = "returned" => connection_lock' # "loop"]_vars
    /\ [](connection_lock = "loop" => ENABLED (LoopRelease \/ SendWriteBegin
              \/ (\E o \in WriteOutcomes : SendWriteEnd(o)) \/ ScanSkip \/ ScanWriteBegin
              \/ ScanWriteEnd \/ ProbeBegin \/ ProbeEnd))

\* get_connection has returned a connection it re-established after the
\* probe of its cached connection failed: the call took the lock twice,
\* one holding after the other, and the lock is free.
C39_Witness ==
    /\ Returned("get_connection", "ok")
    /\ call.pre[1] # 0 /\ serial_connection # call.pre[1]
    /\ connection_lock = "free"

(* -------------------------------- C40 --------------------------------- *)
\* What a send call has decided, whichever of the two functions made it.
Decision(c) == [c EXCEPT !.kind = ""]

\* The step enters send_shade_command_fast or send_shade_command_single_shot.
SendBegins == LoopIdle /\ call'.op = "send"

SweepStep == next_sweep' # next_sweep

\* The tasks in the active-tasks map that are more than 12 s old.
Zombies == {t \in active_tasks : now - task_times[t].created > 12}

\* C32: a pass of the sweep requests the cancellation of every task in the
\* active-tasks map that is more than 12 s old, removes exactly those
\* tasks from the map and exactly the shade entries that point to them,
\* adds their number to the cleaned counter, and leaves every other task
\* (12 s old or less) as it was.
C32_ZombieSweep ==
    [][SweepStep =>
          /\ active_tasks' = active_tasks \ Zombies
          /\ \A t \in Zombies : Done(t) \/ tasks'[t].cancelReq
          /\ DOMAIN active_shade_tasks' =
                {s \in DOMAIN active_shade_tasks : active_shade_tasks[s] \notin Zombies}
          /\ \A s \in DOMAIN active_shade_tasks' :
                active_shade_tasks'[s] = active_shade_tasks[s]
          /\ zombie_metrics'.total_zombies_cleaned =
                zombie_metrics.total_zombies_cleaned + Cardinality(Zombies)
          /\ \A t \in Created \ Zombies : tasks'[t] = tasks[t]]_vars

\* The sweep at 60 s has cleaned one task, 13 s old and registered for a
\* shade, and has left in place a task that was exactly 12 s old.
C32_Witness ==
    /\ now = 60 /\ next_sweep = 120
    /\ zombie_metrics.total_zombies_cleaned = 1
    /\ task_counter = 2
    /\ task_times[1].created = 47 /\ task_times[2].created = 48
    /\ tasks[1].cancelReq /\ tasks[1].pc = "sleep" /\ tasks[1].phase = "step_delay"
    /\ active_tasks = {2} /\ ~tasks[2].cancelReq
    /\ active_shade_tasks = <<>>

(* -------------------------------- C35 --------------------------------- *)
\* Scene task t is running (asleep between two transmissions), has not
\* been signalled, and is less than its timeout_seconds old.
WithinSceneTimeout(t) ==
    /\ tasks[t].kind = "scene" /\ tasks[t].pc = "sleep" /\ ~tasks[t].cancelReq
    /\ now - task_times[t].created < task_times[t].timeout

\* C35: a pass of the periodic sweep neither requests the cancellation of
\* a scene task that is still within its timeout_seconds nor removes it
\* from the active-tasks map.
C35_SweepSparesScenes ==
    [][SweepStep =>
          \A t \in Created :
              WithinSceneTimeout(t) =>
                  /\ tasks'[t].cancelReq = tasks[t].cancelReq
                  /\ t \in active_tasks => t \in active_tasks']_vars

(* -------------------------------- C33 --------------------------------- *)
\* Burst t has been inside its timeout wrapper for 10 s or more.
TenSecondsIn(t) ==
    /\ IsBurst(t)
    /\ task_times[t].entered >= 0
    /\ now - task_times[t].entered >= 10

TimedOutBursts == {t \in Created : IsBurst(t) /\ tasks[t].exit = "timeout"}

\* C33: a burst that is still running 10 s after it started cannot go on
\* and can only be ended by its timeout; the step that ends it adds exactly
\* one to the timeout-kill counter, removes the task from the active-tasks
\* map and removes its shade entry if it still owns it; the counter moves
\* at no other step, so that it always equals the number of bursts ended by
\* their timeout and a burst that finishes earlier never counts.
C33_BurstSelfTimeout ==
    /\ [](\A t \in Created :
             TenSecondsIn(t) /\ ~Done(t) /\ ~Signalled(t) =>
                 /\ ENABLED BurstTimeoutError(t)
                 /\ ~ENABLED timeout_protected_sequence(t))
    /\ [][\A t \in Created :
             IsBurst(t) /\ ~Done(t) /\ tasks'[t].pc = "done" /\ tasks'[t].exit = "timeout" =>
                 /\ TenSecondsIn(t)
                 /\ zombie_metrics'.total_timeout_kills = zombie_metrics.total_timeout_kills + 1
                 /\ t \notin active_tasks'
                 /\ \A s \in DOMAIN active_shade_tasks' : active_shade_tasks'[s] # t
                 /\ \A s \in DOMAIN active_shade_tasks :
                       active_shade_tasks[s] # t =>
                           /\ s \in DOMAIN active_shade_tasks'
                           /\ active_shade_tasks'[s] = active_shade_tasks[s]]_vars
    /\ [](zombie_metrics.total_timeout_kills = Cardinality(TimedOutBursts))
    /\ [](\A t \in Created :
             IsBurst(t) /\ Done(t) /\ tasks[t].exit = "completed" =>
                 Len(tasks[t].sent) = 3)

\* A burst was ended by its timeout, 10 s after its first step, while it
\* owned its shade: counted once, gone from both maps; another burst
\* completed in time.
C33_Witness ==
    /\ zombie_metrics.total_timeout_kills = 1
    /\ \E t \in Created :
          /\ IsBurst(t) /\ tasks[t].exit = "timeout"
          /\ Len(tasks[t].sent) = 2
          /\ t \notin active_tasks
          /\ tasks[t].shade_id \notin DOMAIN active_shade_tasks
    /\ \E t \in Created : IsBurst(t) /\ tasks[t].exit = "completed"

(* -------------------------------- C37 --------------------------------- *)
\* The step belongs to wait_for_task: the waiter moves.
WaiterStep == waiter' # waiter

\* C37: a step of wait_for_task changes nothing of the scheduler: it does
\* not signal cancellation to the awaited task or alter any task, and it
\* leaves both maps as they are.
C37_WaitOnlyObserves ==
    [][WaiterStep => UNCHANGED schedVars]_vars

TypeOK ==
    /\ task_counter \in 0..MaxTasks
    /\ DOMAIN tasks = 1..task_counter
    /\ active_tasks \subseteq Created
    /\ DOMAIN active_shade_tasks \subseteq Shades
    /\ cancelled_tasks \subseteq Created
====
